---- MODULE Spec2Model ----
(***************************************************************************)
(* VaFs (vali-rofs): the storage device, the block stream, the block       *)
(* cache, the descriptor tree and the image engine of libvafs.             *)
(*                                                                         *)
(* Layout convention: the model counts storage in cells. One cell holds    *)
(* one struct field or one payload byte, so sizeof(struct) is the number   *)
(* of fields of the struct and every offset is a cell offset.  Block sizes *)
(* are scaled down accordingly.  Strings are sequences of character codes. *)
(***************************************************************************)
EXTENDS Integers, Sequences, FiniteSets, TLC

(***************************************************************************)
(* Bounds of the model                                                     *)
(***************************************************************************)
\* cells per block of the stream under test (blockSize of vafs_stream_create)
BlockSize == 2
\* most cells one vafs_stream_write call of the stream specification carries
MaxChunk == 3
\* most payload cells the stream specification writes in total
MaxBlocks == 9
MaxWritten == MaxBlocks * BlockSize + 2
\* scaled VA_FS_DATA_MIN_BLOCKSIZE and VA_FS_DATA_MAX_BLOCKSIZE, in cells
VA_FS_DATA_MIN_BLOCKSIZE == 2
VA_FS_DATA_MAX_BLOCKSIZE == 16
\* scaled STREAM_CACHE_SIZE: blocks a stream's cache holds
STREAM_CACHE_SIZE == 2
\* most nodes of a tree of the build specification, the root included
MaxNodes == 4
\* most file handles open at once in the build specification
MaxHandles == 2
\* most payload cells the build specification writes into an image
MaxData == 4
\* cache specification: the block indices requested are 0..MaxIndex, each
\* at most MaxRequests times
\* read specification: files of 1..MaxLength cells, at most MaxReads
\* vafs_file_read calls
MaxLength == 2
MaxReads == 2
MaxIndex == 2
MaxRequests == 3
\* the calls made in a run of the handle specification
MaxCalls == 4
\* seek specification: streams of 1..MaxSeekWritten cells, seeks to blocks
\* 0..MaxSeekBlock at offsets 0..MaxSeekOffset, at most MaxSeeks calls
MaxSeekWritten == 5
MaxSeekBlock == 3
MaxSeekOffset == 5
MaxSeeks == 3
\* device specification: a source of 0..MaxSourceSize valid cells, writes of
\* 1..MaxDeviceWrite cells, seeks by -1..MaxDeviceOffset, at most
\* MaxDeviceCalls calls
MaxSourceSize == 7
MaxDeviceWrite == 2
MaxDeviceOffset == 3
MaxDeviceCalls == 4
\* copies between backends: a fault in round 1..MaxFaultRound of the
\* transfer loop, the faulty call moving 0..MaxFaultCount cells
MaxFaultRound == 2
\* __vafs_resolve_symlink into buffers of 1..MaxResolveBuffer cells, with
\* targets of at most MaxBoundedTarget cells
MaxResolveBuffer == 4
MaxBoundedTarget == 2
MaxFaultCount == 1
\* path specification: path components of up to MaxComponentExcess cells
\* more than the token buffer holds, behind up to MaxLeadingSlashes separators;
\* symlink targets of up to MaxTargetLength cells
MaxComponentExcess == 2
\* path specification: the token[128] of the directory calls and
\* VAFS_NAME_MAX, scaled to cells the tokenizer's loop is run over
ScaledDirectoryToken == 4
ScaledNameMax == 7
MaxLeadingSlashes == 2
MaxTargetLength == 4
MaxTargetExcess == 2
\* period of the payload pattern written by the stream specification
PatternMod == 3

(***************************************************************************)
(* Program constants                                                       *)
(***************************************************************************)
STREAM_MAGIC == 827151190
\* sizeof(struct VaFsStreamHeader) in cells: Magic, BlockSize,
\* BlockHeadersOffset, BlockHeadersCount
StreamHeaderSize == 4
\* sizeof(struct BlockHeader) in cells: LengthOnDisk, Offset, Crc,
\* Flags+Reserved
BlockHeaderSize == 4
\* first capacity of the block-header table
InitialHeaderCapacity == 8
\* sizeof(struct __brieflz_block) in cells: usize
FilterBlockSize == 1

SEEK_SET == 0
SEEK_CUR == 1
SEEK_END == 2

\* the path separator and the dot, as character codes
Slash == 47
Dot == 46

VA_FS_MAGIC == 826561101
VA_FS_VERSION == 65536
VA_FS_INVALID_BLOCK == 65535
\* all ones at the model's 16-bit offset width
VA_FS_INVALID_OFFSET == 65535
VA_FS_DESCRIPTOR_TYPE_FILE == 1
VA_FS_DESCRIPTOR_TYPE_DIRECTORY == 2
VA_FS_DESCRIPTOR_TYPE_SYMLINK == 3

\* the token buffer of the directory calls, and VAFS_NAME_MAX + 1
DirectoryTokenSize == 128
FileTokenSize == 256

VAFS_PATH_MAX == 4096
\* 0777, the permissions of a created root, and 0755, those stat reports
RootPermissions == 511
RootStatPermissions == 493
\* symlinks one open or stat follows before it counts as not returning
MaxResolveDepth == 4

\* scaled VA_FS_DESCRIPTOR_BLOCK_SIZE, in cells
VA_FS_DESCRIPTOR_BLOCK_SIZE == 8
\* scaled __TRANSFER_BUFFER_SIZE, in cells
TRANSFER_BUFFER_SIZE == 5
\* the overview feature's GUID, by its second word 0x4BC7
VA_FS_FEATURE_OVERVIEW == 19399
\* cells of a feature header and of the overview feature record
FeatureHeaderSize == 2
OverviewFeatureSize == 6
\* the name of the root directory: "root"
RootName == <<114, 111, 111, 116>>

BasePermissions == 420

\* cells of the on-disk structures: one cell per field
DescriptorBaseSize == 2
\* the number of values of a uint16_t field
Uint16Modulus == 65536
FileDescriptorSize == 6
DirectoryDescriptorSize == 5
SymlinkDescriptorSize == 4
DirectoryHeaderSize == 1
ImageHeaderSize == 10

\* content of a cell that was allocated and never written
Uninit == -1

Min(a, b) == IF a < b THEN a ELSE b
Max(a, b) == IF a > b THEN a ELSE b

Reverse(s) == [i \in 1..Len(s) |-> s[Len(s) + 1 - i]]

\* n copies of v
Fill(n, v) == [i \in 1..n |-> v]

\* SubSeq by zero-based start and length
Slice(s, start, len) == SubSeq(s, start + 1, start + len)

\* modulus of the model's checksum
CrcModulus == 65521

(***************************************************************************)
(* crc_calculate: a 32-bit checksum of a cell sequence                     *)
(***************************************************************************)
RECURSIVE CrcFold(_, _)
CrcFold(acc, s) ==
    IF s = <<>> THEN acc
    ELSE CrcFold((acc * 31 + Head(s) + 7) % CrcModulus, Tail(s))

crc_calculate(data) == CrcFold(1, data)

(***************************************************************************)
(* The data filter of the tools (brieflz): a block header holding the      *)
(* uncompressed size, then the packed payload.  The packer is a bijection. *)
(***************************************************************************)
FilterEncode(input) ==
    [status |-> 0, output |-> <<Len(input)>> \o Reverse(input)]

FilterDecode(input, maxLength) ==
    IF Len(input) < FilterBlockSize \/ input[1] > maxLength
        THEN [status |-> -1, output |-> <<>>]
    ELSE IF input[1] # Len(input) - FilterBlockSize
        THEN [status |-> -1, output |-> <<>>]
    ELSE [status |-> 0, output |-> Reverse(Tail(input))]

(***************************************************************************)
(* Storage device, memory backend                                          *)
(***************************************************************************)
\* vafs_streamdevice_create_memory
CreateMemoryDevice(blockSize) ==
    [ReadOnly |-> FALSE, Locked |-> FALSE,
     Buffer |-> Fill(blockSize, Uninit), Capacity |-> blockSize,
     Size |-> 0, Position |-> 0]

\* vafs_streamdevice_open_memory
OpenMemoryDevice(buffer) ==
    [ReadOnly |-> TRUE, Locked |-> FALSE,
     Buffer |-> buffer, Capacity |-> Len(buffer),
     Size |-> Len(buffer), Position |-> 0]

MemsizeAvailable(dev) == dev.Capacity - dev.Position

GrowBuffer(dev, length) ==
    [dev EXCEPT !.Buffer = @ \o Fill(length, Uninit), !.Capacity = @ + length]

MemorySeek(dev, offset, whence) ==
    IF offset = 0 /\ whence = SEEK_CUR
        THEN [dev |-> dev, pos |-> dev.Position]
    ELSE IF whence \notin {SEEK_SET, SEEK_CUR, SEEK_END}
        THEN [dev |-> dev, pos |-> -1]
    ELSE LET raw == CASE whence = SEEK_SET -> offset
                      [] whence = SEEK_CUR -> dev.Position + offset
                      [] whence = SEEK_END -> dev.Size + offset
             pos == Min(Max(raw, 0), dev.Size)
         IN [dev |-> [dev EXCEPT !.Position = pos], pos |-> pos]

\* a read that takes the cells up to the capacity for valid
MemoryReadToCapacity(dev, length) ==
    LET byteCount == Min(length, dev.Capacity - dev.Position)
    IN [dev |-> [dev EXCEPT !.Position = @ + byteCount],
        data |-> Slice(dev.Buffer, dev.Position, byteCount),
        bytesRead |-> byteCount, status |-> 0]

MemoryRead(dev, length) ==
    LET byteCount == Min(length, dev.Size - dev.Position)
    IN [dev |-> [dev EXCEPT !.Position = @ + byteCount],
        data |-> Slice(dev.Buffer, dev.Position, byteCount),
        bytesRead |-> byteCount, status |-> 0]

MemoryWrite(dev, data) ==
    LET length == Len(data)
        Store(grown) ==
            LET pos == grown.Position + length
            IN [dev |-> [grown EXCEPT
                    !.Buffer = [i \in 1..grown.Capacity |->
                                   IF i > grown.Position /\ i <= pos
                                       THEN data[i - grown.Position]
                                       ELSE grown.Buffer[i]],
                    !.Position = pos,
                    !.Size = IF pos > @ THEN pos ELSE @],
                bytesWritten |-> length, status |-> 0]
    IN Store(IF length > MemsizeAvailable(dev)
                 THEN GrowBuffer(dev, length - MemsizeAvailable(dev))
                 ELSE dev)

\* __memory_write when realloc returns no memory in __grow_buffer: the
\* device is left as it was, and bytesWritten is not assigned
MemoryWriteNoMemory(dev, data) ==
    [dev |-> dev, bytesWritten |-> 0, status |-> -1]

\* vafs_streamdevice_seek
DeviceSeek(dev, offset, whence) == MemorySeek(dev, offset, whence)

\* vafs_streamdevice_read
DeviceRead(dev, length) ==
    IF length = 0
        THEN [dev |-> dev, data |-> <<>>, bytesRead |-> 0, status |-> -1]
        ELSE MemoryRead(dev, length)

\* vafs_streamdevice_write
DeviceWrite(dev, data) ==
    IF Len(data) = 0 \/ dev.ReadOnly
        THEN [dev |-> dev, bytesWritten |-> 0, status |-> -1]
        ELSE MemoryWrite(dev, data)

(***************************************************************************)
(* Block cache: a heat map of requests and the cached blocks               *)
(***************************************************************************)
EmptyTable == [i \in {} |-> 0]

\* vafs_hashtable_set, _get by key presence, _remove
TableSet(t, key, value) ==
    [i \in (DOMAIN t) \cup {key} |-> IF i = key THEN value ELSE t[i]]

TableHas(t, key) == key \in DOMAIN t

TableRemove(t, key) == [i \in (DOMAIN t) \ {key} |-> t[i]]

\* a stream that has no cache (write mode)
NoCache == [max_blocks |-> 0, heatmap |-> EmptyTable, cache |-> EmptyTable]

\* vafs_cache_create
CacheCreate(maxBlocks) ==
    [max_blocks |-> maxBlocks, heatmap |-> EmptyTable, cache |-> EmptyTable]

\* __heatmap_hit
HeatmapHit(c, index) ==
    [c EXCEPT !.heatmap = IF TableHas(@, index)
                              THEN TableSet(@, index, @[index] + 1)
                              ELSE TableSet(@, index, 1)]

\* __heatmap_hits
HeatmapHits(c, index) ==
    IF TableHas(c.heatmap, index) THEN c.heatmap[index] ELSE 0

\* vafs_cache_get
CacheGet(c, index) ==
    LET Lookup(c1) ==
            IF ~TableHas(c1.cache, index)
                THEN [cache |-> c1, status |-> -1, buffer |-> <<>>, size |-> 0]
                ELSE LET block == [c1.cache[index] EXCEPT !.uses = @ + 1]
                     IN [cache |-> [c1 EXCEPT !.cache = TableSet(@, index, block)],
                         status |-> 0, buffer |-> block.buffer, size |-> block.size]
    IN Lookup(HeatmapHit(c, index))

\* an eviction that drops the entry of the greatest use count
EjectHighuse(c) ==
    IF Cardinality(DOMAIN c.cache) < c.max_blocks \/ DOMAIN c.cache = {}
        THEN c
    ELSE LET most == CHOOSE i \in DOMAIN c.cache :
                         \A j \in DOMAIN c.cache :
                             \/ c.cache[i].uses > c.cache[j].uses
                             \/ c.cache[i].uses = c.cache[j].uses /\ i >= j
         IN [c EXCEPT !.cache = TableRemove(@, most)]

\* __eject_lowuse with __cache_enum: the enumeration visits the entries by
\* ascending index and keeps the first one of the least use count
EjectLowuse(c) ==
    IF Cardinality(DOMAIN c.cache) < c.max_blocks \/ DOMAIN c.cache = {}
        THEN c
    ELSE LET least == CHOOSE i \in DOMAIN c.cache :
                          \A j \in DOMAIN c.cache :
                              \/ c.cache[i].uses < c.cache[j].uses
                              \/ c.cache[i].uses = c.cache[j].uses /\ i <= j
         IN [c EXCEPT !.cache = TableRemove(@, least)]

\* a cache that stores zeroes in place of the cells it is handed
CacheSetZeroes(c, index, buffer, size) ==
    IF HeatmapHits(c, index) <= 1
        THEN [cache |-> c, status |-> 0]
    ELSE IF TableHas(c.cache, index)
        THEN [cache |-> c, status |-> -1]
    ELSE LET e == EjectLowuse(c)
         IN [cache |-> [e EXCEPT !.cache =
                           TableSet(@, index, [buffer |-> [i \in 1..size |-> 0],
                                               size |-> size, uses |-> 1])],
             status |-> 0]

\* a cache that admits a block on its first request
CacheSetEager(c, index, buffer, size) ==
    IF HeatmapHits(c, index) < 1
        THEN [cache |-> c, status |-> 0]
    ELSE IF TableHas(c.cache, index)
        THEN [cache |-> c, status |-> -1]
    ELSE LET e == EjectLowuse(c)
         IN [cache |-> [e EXCEPT !.cache =
                           TableSet(@, index, [buffer |-> SubSeq(buffer, 1, size),
                                               size |-> size, uses |-> 1])],
             status |-> 0]

\* vafs_cache_set
CacheSet(c, index, buffer, size) ==
    IF HeatmapHits(c, index) <= 1
        THEN [cache |-> c, status |-> 0]
    ELSE IF TableHas(c.cache, index)
        THEN [cache |-> c, status |-> -1]
    ELSE LET e == EjectLowuse(c)
         IN [cache |-> [e EXCEPT !.cache =
                           TableSet(@, index, [buffer |-> SubSeq(buffer, 1, size),
                                               size |-> size, uses |-> 1])],
             status |-> 0]

(***************************************************************************)
(* Block stream, write side                                                *)
(***************************************************************************)
ZeroBlockHeader == [LengthOnDisk |-> 0, Offset |-> 0, Crc |-> 0, Flags |-> 0]
UninitBlockHeader ==
    [LengthOnDisk |-> Uninit, Offset |-> Uninit, Crc |-> Uninit, Flags |-> Uninit]

StreamHeaderCells(h) ==
    <<h.Magic, h.BlockSize, h.BlockHeadersOffset, h.BlockHeadersCount>>

BlockHeaderCells(b) == <<b.LengthOnDisk, b.Offset, b.Crc, b.Flags>>

RECURSIVE BlockHeadersCells(_, _)
BlockHeadersCells(headers, count) ==
    IF count = 0 THEN <<>>
    ELSE BlockHeadersCells(headers, count - 1) \o BlockHeaderCells(headers[count])

\* __new_stream: a zeroed stream bound to a device offset
NewStream(deviceOffset) ==
    [Header |-> [Magic |-> 0, BlockSize |-> 0,
                 BlockHeadersOffset |-> 0, BlockHeadersCount |-> 0],
     DeviceOffset |-> deviceOffset,
     HasFilter |-> FALSE,
     BlockHeaders |-> [Count |-> 0, Capacity |-> 0, Headers |-> <<>>],
     BlockCache |-> NoCache,
     BlockBuffer |-> <<>>,
     BlockBufferIndex |-> 0,
     BlockBufferOffset |-> 0]

\* vafs_stream_create
StreamCreate(dev, deviceOffset, blockSize) ==
    LET s1 == [NewStream(deviceOffset) EXCEPT !.Header.Magic = STREAM_MAGIC,
                                              !.Header.BlockSize = blockSize]
        Written(w) ==
            IF w.status # 0
                THEN [stream |-> s1, dev |-> w.dev, status |-> -1]
                ELSE [stream |-> [s1 EXCEPT !.BlockBuffer = Fill(blockSize, Uninit)],
                      dev |-> w.dev, status |-> 0]
    IN Written(DeviceWrite(dev, StreamHeaderCells(s1.Header)))

\* vafs_stream_set_filter
StreamSetFilter(stream, on) == [stream EXCEPT !.HasFilter = on]

\* vafs_stream_position
StreamPosition(stream) ==
    [Index |-> stream.BlockBufferIndex, Offset |-> stream.BlockBufferOffset]

\* __get_blockbuffer_crc
BlockBufferCrc(stream, length) ==
    crc_calculate(SubSeq(stream.BlockBuffer, 1, length))

\* the reallocation of __add_block_header that zeroes the head of the table
GrowBlockHeaders(bh) ==
    LET newCapacity == IF bh.Capacity * 2 = 0 THEN InitialHeaderCapacity
                                              ELSE bh.Capacity * 2
        moved == bh.Headers \o Fill(newCapacity - bh.Capacity, UninitBlockHeader)
        zeroed == [i \in 1..newCapacity |->
                      IF i <= newCapacity - bh.Capacity THEN ZeroBlockHeader
                                                        ELSE moved[i]]
    IN [bh EXCEPT !.Headers = zeroed, !.Capacity = newCapacity]

\* __add_block_header
AddBlockHeader(stream, dev, blockLength) ==
    LET entry == [LengthOnDisk |-> blockLength,
                  Offset |-> DeviceSeek(dev, 0, SEEK_CUR).pos,
                  Crc |-> BlockBufferCrc(stream, stream.BlockBufferOffset),
                  Flags |-> 0]
        Added(bh) ==
            [stream |-> [stream EXCEPT !.BlockHeaders =
                            [bh EXCEPT !.Headers[bh.Count + 1] = entry,
                                       !.Count = @ + 1]],
             status |-> 0]
    IN Added(IF stream.BlockHeaders.Count = stream.BlockHeaders.Capacity
                 THEN GrowBlockHeaders(stream.BlockHeaders)
                 ELSE stream.BlockHeaders)

\* what can fail in one __flush_block: nothing, the encoder, the
\* reallocation of the block table, the growth of the memory device
FlushFaults == {"none", "encode", "alloc", "device"}

\* __flush_block under a fault
FlushBlockUnder(stream, dev, fault) ==
    IF stream.BlockBufferOffset = 0
        THEN [stream |-> stream, dev |-> dev, status |-> 0]
    ELSE
        LET raw == SubSeq(stream.BlockBuffer, 1, stream.BlockBufferOffset)
            Flushed(a, w) ==
                IF a.status # 0
                    THEN [stream |-> a.stream, dev |-> dev, status |-> a.status]
                ELSE IF w.status # 0
                    THEN [stream |-> a.stream, dev |-> w.dev, status |-> w.status]
                ELSE [stream |-> [a.stream EXCEPT !.BlockBufferIndex = @ + 1,
                                                  !.BlockBufferOffset = 0],
                      dev |-> w.dev, status |-> 0]
            Encoded(enc) ==
                IF enc.status # 0
                    THEN [stream |-> stream, dev |-> dev, status |-> enc.status]
                    ELSE Flushed(
                        IF fault = "alloc"
                           /\ stream.BlockHeaders.Count = stream.BlockHeaders.Capacity
                            THEN [stream |-> stream, status |-> -1]
                            ELSE AddBlockHeader(stream, dev, Len(enc.output)),
                        IF fault = "device"
                           /\ Len(enc.output) > MemsizeAvailable(dev)
                            THEN MemoryWriteNoMemory(dev, enc.output)
                            ELSE DeviceWrite(dev, enc.output))
        IN Encoded(IF ~stream.HasFilter THEN [status |-> 0, output |-> raw]
                   ELSE IF fault = "encode" THEN [status |-> -1, output |-> <<>>]
                   ELSE FilterEncode(raw))

\* __flush_block
FlushBlock(stream, dev) == FlushBlockUnder(stream, dev, "none")

\* the loop of vafs_stream_write, every flush under the fault
RECURSIVE StreamWriteLoopUnder(_, _, _, _)
StreamWriteLoopUnder(stream, dev, data, fault) ==
    IF data = <<>>
        THEN [stream |-> stream, dev |-> dev, status |-> 0]
    ELSE
        LET bs == stream.Header.BlockSize
            bytesLeftInBlock == bs - (stream.BlockBufferOffset % bs)
            byteCount == Min(Len(data), bytesLeftInBlock)
            rest == SubSeq(data, byteCount + 1, Len(data))
            Flushed(f) ==
                IF f.status # 0
                    THEN [stream |-> f.stream, dev |-> f.dev, status |-> -1]
                    ELSE StreamWriteLoopUnder(f.stream, f.dev, rest, fault)
            Copied(s1) ==
                IF s1.BlockBufferOffset = bs
                    THEN Flushed(FlushBlockUnder(s1, dev, fault))
                    ELSE StreamWriteLoopUnder(s1, dev, rest, fault)
        IN Copied([stream EXCEPT
                      !.BlockBuffer = [i \in 1..Len(stream.BlockBuffer) |->
                          IF i > stream.BlockBufferOffset
                             /\ i <= stream.BlockBufferOffset + byteCount
                              THEN data[i - stream.BlockBufferOffset]
                              ELSE stream.BlockBuffer[i]],
                      !.BlockBufferOffset = @ + byteCount])

StreamWriteLoop(stream, dev, data) ==
    StreamWriteLoopUnder(stream, dev, data, "none")

\* vafs_stream_write under a fault
StreamWriteUnder(stream, dev, data, fault) ==
    IF Len(data) = 0
        THEN [stream |-> stream, dev |-> dev, status |-> -1]
        ELSE StreamWriteLoopUnder(stream, dev, data, fault)

\* vafs_stream_write
StreamWrite(stream, dev, data) == StreamWriteUnder(stream, dev, data, "none")

\* __write_block_headers
WriteBlockHeaders(stream, dev) ==
    LET offset == DeviceSeek(dev, 0, SEEK_CUR).pos
        Written(w) ==
            IF w.status # 0
                THEN [stream |-> stream, dev |-> w.dev, status |-> w.status]
                ELSE [stream |-> [stream EXCEPT
                          !.Header.BlockHeadersOffset = offset - stream.DeviceOffset,
                          !.Header.BlockHeadersCount = stream.BlockHeaders.Count],
                      dev |-> w.dev, status |-> 0]
    IN Written(DeviceWrite(dev, BlockHeadersCells(stream.BlockHeaders.Headers,
                                                  stream.BlockHeaders.Count)))

\* a header patch that leaves the device position behind the header
UpdateStreamHeaderNoRestore(stream, dev) ==
    LET Written(w) == [stream |-> stream, dev |-> w.dev, status |-> w.status]
    IN Written(DeviceWrite(DeviceSeek(dev, stream.DeviceOffset, SEEK_SET).dev,
                           StreamHeaderCells(stream.Header)))

\* __update_stream_header
UpdateStreamHeader(stream, dev) ==
    LET original == DeviceSeek(dev, 0, SEEK_CUR).pos
        Written(w) ==
            IF w.status # 0
                THEN [stream |-> stream, dev |-> w.dev, status |-> w.status]
                ELSE [stream |-> stream,
                      dev |-> DeviceSeek(w.dev, original, SEEK_SET).dev,
                      status |-> 0]
        Sought(sk) ==
            IF sk.pos = -1
                THEN [stream |-> stream, dev |-> sk.dev, status |-> -1]
                ELSE Written(DeviceWrite(sk.dev, StreamHeaderCells(stream.Header)))
    IN Sought(DeviceSeek(dev, stream.DeviceOffset, SEEK_SET))

\* vafs_stream_finish, its flush under a fault
StreamFinishUnder(stream, dev, fault) ==
    LET Patched(h) ==
            IF h.status # 0 THEN h ELSE UpdateStreamHeader(h.stream, h.dev)
        Flushed(f) ==
            IF f.status # 0 THEN f ELSE Patched(WriteBlockHeaders(f.stream, f.dev))
    IN Flushed(FlushBlockUnder(stream, dev, fault))

\* vafs_stream_finish
StreamFinish(stream, dev) == StreamFinishUnder(stream, dev, "none")

(***************************************************************************)
(* Block stream, on-disk parsing                                           *)
(***************************************************************************)
\* struct VaFsStreamHeader read back from its cells
StreamHeaderFromCells(c) ==
    [Magic |-> c[1], BlockSize |-> c[2],
     BlockHeadersOffset |-> c[3], BlockHeadersCount |-> c[4]]

\* struct BlockHeader read back from its cells
BlockHeaderFromCells(c) ==
    [LengthOnDisk |-> c[1], Offset |-> c[2], Crc |-> c[3], Flags |-> c[4]]

\* the block-header table a stream at deviceOffset holds on the device
TableOnDevice(dev, deviceOffset) ==
    LET h == StreamHeaderFromCells(Slice(dev.Buffer, deviceOffset, StreamHeaderSize))
    IN [i \in 1..h.BlockHeadersCount |->
           BlockHeaderFromCells(
               Slice(dev.Buffer,
                     deviceOffset + h.BlockHeadersOffset + (i - 1) * BlockHeaderSize,
                     BlockHeaderSize))]

(***************************************************************************)
(* Block stream, read side                                                 *)
(***************************************************************************)
\* __get_block_header: TRUE when the stream has a header for the block
HasBlockHeader(stream, block) == block >= 0 /\ block < stream.BlockHeaders.Count

GetBlockHeader(stream, block) == stream.BlockHeaders.Headers[block + 1]

\* __verify_header
VerifyHeader(header) ==
    IF header.Magic # STREAM_MAGIC THEN -1
    ELSE IF header.BlockSize < VA_FS_DATA_MIN_BLOCKSIZE
            \/ header.BlockSize > VA_FS_DATA_MAX_BLOCKSIZE THEN -1
    ELSE 0

\* __load_block_headers
LoadBlockHeaders(stream, dev) ==
    LET count == stream.Header.BlockHeadersCount
        Parsed(cells) ==
            [i \in 1..count |->
                BlockHeaderFromCells(
                    Slice(cells, (i - 1) * BlockHeaderSize, BlockHeaderSize))]
        Loaded(r) ==
            IF r.status # 0
                THEN [stream |-> [stream EXCEPT !.BlockHeaders.Count = count,
                                                !.BlockHeaders.Capacity = count],
                      dev |-> r.dev, status |-> r.status]
                ELSE [stream |-> [stream EXCEPT !.BlockHeaders =
                          [Count |-> count, Capacity |-> count,
                           Headers |-> Parsed(r.data \o
                               Fill(BlockHeaderSize * count - r.bytesRead, Uninit))]],
                      dev |-> r.dev, status |-> 0]
    IN Loaded(DeviceRead(
           DeviceSeek(dev, stream.DeviceOffset + stream.Header.BlockHeadersOffset,
                      SEEK_SET).dev,
           BlockHeaderSize * count))

\* __load_metadata
LoadMetadata(stream, dev) ==
    LET Verified(s1, device) ==
            IF VerifyHeader(s1.Header) # 0
                THEN [stream |-> s1, dev |-> device, status |-> -1]
                ELSE LoadBlockHeaders(s1, device)
        Loaded(r) ==
            IF r.status # 0
                THEN [stream |-> stream, dev |-> r.dev, status |-> -1]
                ELSE Verified(
                         [stream EXCEPT !.Header = StreamHeaderFromCells(
                             r.data \o SubSeq(StreamHeaderCells(stream.Header),
                                              r.bytesRead + 1, StreamHeaderSize))],
                         r.dev)
    IN Loaded(DeviceRead(dev, StreamHeaderSize))

\* vafs_stream_open
StreamOpen(dev, deviceOffset) ==
    LET Loaded(m) ==
            IF m.status # 0
                THEN [stream |-> m.stream, dev |-> m.dev, status |-> -1]
                ELSE [stream |-> [m.stream EXCEPT
                          !.BlockCache = CacheCreate(STREAM_CACHE_SIZE),
                          !.BlockBuffer = Fill(m.stream.Header.BlockSize, Uninit)],
                      dev |-> m.dev, status |-> 0]
    IN Loaded(LoadMetadata(NewStream(deviceOffset), dev))

\* memcpy of the first cells of src over dst
CopyInto(dst, src, n) ==
    [i \in 1..Max(Len(dst), n) |-> IF i <= n THEN src[i] ELSE dst[i]]

\* __load_blockbuffer once the block is in the block buffer: the checksum
\* of the header is checked and the block enters the cache
VerifyBlockBuffer(stream, dev, blockIndex, blockSize, crc) ==
    IF BlockBufferCrc(stream, blockSize) # crc
        THEN [stream |-> stream, dev |-> dev, status |-> -1, errno |-> "EIO"]
        ELSE [stream |-> [stream EXCEPT !.BlockCache =
                  CacheSet(@, blockIndex, stream.BlockBuffer, blockSize).cache],
              dev |-> dev, status |-> 0, errno |-> "OK"]
\* __load_blockbuffer once the block was read from the device: the filter
\* decodes it into the block buffer, or it is copied as it is
DecodeBlockBuffer(stream, blockIndex, header, r) ==
    LET blockData == r.data \o Fill(header.LengthOnDisk - r.bytesRead, Uninit)
        d == IF stream.HasFilter
                 THEN FilterDecode(blockData, stream.Header.BlockSize)
                 ELSE [status |-> 0, output |-> blockData]
    IN IF r.status # 0
           THEN [stream |-> stream, dev |-> r.dev, status |-> r.status,
                 errno |-> "EINVAL"]
       ELSE IF d.status # 0
           THEN [stream |-> stream, dev |-> r.dev, status |-> d.status,
                 errno |-> "EINVAL"]
       ELSE VerifyBlockBuffer([stream EXCEPT !.BlockBuffer =
                                  CopyInto(@, d.output, Len(d.output))],
                              r.dev, blockIndex, Len(d.output), header.Crc)
\* __load_blockbuffer once the cache was asked: a hit fills the block
\* buffer, a miss reads the block of the header from the device
FetchBlockBuffer(stream, dev, blockIndex, g) ==
    IF g.status = 0
        THEN [stream |-> [stream EXCEPT !.BlockCache = g.cache,
                                        !.BlockBuffer = CopyInto(@, g.buffer, g.size)],
              dev |-> dev, status |-> 0, errno |-> "OK"]
    ELSE IF ~HasBlockHeader(stream, blockIndex)
        THEN [stream |-> [stream EXCEPT !.BlockCache = g.cache],
              dev |-> dev, status |-> -1, errno |-> "ENOENT"]
    ELSE DecodeBlockBuffer(
             [stream EXCEPT !.BlockCache = g.cache], blockIndex,
             GetBlockHeader(stream, blockIndex),
             DeviceRead(DeviceSeek(dev, stream.DeviceOffset
                                        + GetBlockHeader(stream, blockIndex).Offset,
                                   SEEK_SET).dev,
                        GetBlockHeader(stream, blockIndex).LengthOnDisk))
\* __load_blockbuffer
LoadBlockBuffer(stream, dev, blockIndex) ==
    FetchBlockBuffer(stream, dev, blockIndex, CacheGet(stream.BlockCache, blockIndex))

\* a seek that takes the offset as it is, without walking it over blocks
StreamSeekNoWalk(stream, targetBlock, targetOffset) ==
    [status |-> IF HasBlockHeader(stream, targetBlock) THEN 0 ELSE -1,
     block |-> targetBlock, offset |-> targetOffset]

\* the loop of vafs_stream_seek that walks the offset over whole blocks
RECURSIVE StreamSeekTarget(_, _, _)
StreamSeekTarget(stream, targetBlock, targetOffset) ==
    IF ~HasBlockHeader(stream, targetBlock)
        THEN [status |-> -1, block |-> targetBlock, offset |-> targetOffset]
    ELSE IF targetOffset < stream.Header.BlockSize
        THEN [status |-> 0, block |-> targetBlock, offset |-> targetOffset]
    ELSE StreamSeekTarget(stream, targetBlock + 1,
                          targetOffset - stream.Header.BlockSize)

\* vafs_stream_seek
StreamSeek(stream, dev, blockIndex, blockOffset) ==
    LET t == StreamSeekTarget(stream, blockIndex, blockOffset)
        Loaded(l) ==
            IF l.status # 0 THEN l
            ELSE [stream |-> [l.stream EXCEPT !.BlockBufferIndex = t.block,
                                              !.BlockBufferOffset = t.offset],
                  dev |-> l.dev, status |-> 0, errno |-> "OK"]
    IN IF t.status # 0
           THEN [stream |-> stream, dev |-> dev, status |-> -1, errno |-> "EINVAL"]
           ELSE Loaded(LoadBlockBuffer(stream, dev, t.block))

\* vafs_stream_read: data is what was copied into the caller's buffer
RECURSIVE StreamReadLoop(_, _, _, _)
StreamReadLoop(stream, dev, bytesToRead, data) ==
    IF bytesToRead = 0
        THEN [stream |-> stream, dev |-> dev, status |-> 0, errno |-> "OK",
              data |-> data]
    ELSE
        LET bytesLeftInBlock == stream.Header.BlockSize - stream.BlockBufferOffset
            byteCount == Min(bytesToRead, bytesLeftInBlock)
            copied == Slice(stream.BlockBuffer, stream.BlockBufferOffset, byteCount)
            s1 == [stream EXCEPT !.BlockBufferOffset = @ + byteCount]
            Loaded(l) ==
                IF l.status # 0
                    THEN [stream |-> l.stream, dev |-> l.dev, status |-> -1,
                          errno |-> l.errno, data |-> data \o copied]
                    ELSE StreamReadLoop(
                             [l.stream EXCEPT !.BlockBufferIndex = @ + 1,
                                              !.BlockBufferOffset = 0],
                             l.dev, bytesToRead - byteCount, data \o copied)
        IN IF s1.BlockBufferOffset = s1.Header.BlockSize
               THEN Loaded(LoadBlockBuffer(s1, dev, s1.BlockBufferIndex + 1))
               ELSE StreamReadLoop(s1, dev, bytesToRead - byteCount, data \o copied)

StreamRead(stream, dev, size) ==
    IF size = 0
        THEN [stream |-> stream, dev |-> dev, status |-> -1, errno |-> "EINVAL",
              data |-> <<>>]
        ELSE StreamReadLoop(stream, dev, size, <<>>)

(***************************************************************************)
(* Exclusive access to a device                                            *)
(***************************************************************************)
\* a lock that is handed out whether it is held or not
DeviceLockAnyway(dev) ==
    [dev |-> [dev EXCEPT !.Locked = TRUE], status |-> 0, errno |-> "OK"]

\* vafs_streamdevice_lock: mtx_trylock, busy when the lock is taken
DeviceLock(dev) ==
    IF dev.Locked
        THEN [dev |-> dev, status |-> -1, errno |-> "EBUSY"]
        ELSE [dev |-> [dev EXCEPT !.Locked = TRUE], status |-> 0, errno |-> "OK"]

\* vafs_streamdevice_unlock
DeviceUnlock(dev) == [dev EXCEPT !.Locked = FALSE]

(***************************************************************************)
(* Descriptor tree: nodes, names and tokens                                *)
(***************************************************************************)
\* the character at zero-based index i of a C string; 0 is its terminator
CharAt(str, i) == IF i < Len(str) THEN str[i + 1] ELSE 0

\* the number of leading separators of path from zero-based index i
RECURSIVE SkipSlashes(_, _)
SkipSlashes(path, i) ==
    IF i < Len(path) /\ path[i + 1] = Slash THEN SkipSlashes(path, i + 1) ELSE i

\* the copy loop of __get_path_token: j cells taken, i the index reached
RECURSIVE CopyToken(_, _, _, _)
CopyToken(path, i, token, tokenSize) ==
    IF i >= Len(path) \/ path[i + 1] = Slash \/ path[i + 1] = 0
        THEN [consumed |-> i, token |-> token, errno |-> "OK"]
    ELSE IF Len(token) >= tokenSize
        THEN [consumed |-> 0, token |-> token, errno |-> "ENAMETOOLONG"]
    ELSE CopyToken(path, i + 1, Append(token, path[i + 1]), tokenSize)

\* __get_path_token and __vafs_pathtoken: consumed = 0 signals failure
GetPathToken(path, tokenSize) ==
    IF Len(path) = 0
        THEN [consumed |-> 0, token |-> <<>>, errno |-> "ENOENT"]
        ELSE CopyToken(path, SkipSlashes(path, 0), <<>>, tokenSize)

\* __vafs_is_root_path and __is_root
IsRootPath(path) == path = <<Slash>> \/ path = <<>>

\* __initialize_file_descriptor with the node of __create_file_entry
NewFile(name, permissions) ==
    [Type |-> VA_FS_DESCRIPTOR_TYPE_FILE, Name |-> name,
     Descriptor |-> [Base |-> [Type |-> VA_FS_DESCRIPTOR_TYPE_FILE,
                               Length |-> FileDescriptorSize],
                     Data |-> [Index |-> VA_FS_INVALID_BLOCK,
                               Offset |-> VA_FS_INVALID_OFFSET],
                     FileLength |-> 0, Permissions |-> permissions]]

\* __initialize_directory_descriptor with the node of __create_directory_entry
NewDirectory(name, permissions) ==
    [Type |-> VA_FS_DESCRIPTOR_TYPE_DIRECTORY, Name |-> name,
     Descriptor |-> [Base |-> [Type |-> VA_FS_DESCRIPTOR_TYPE_DIRECTORY,
                               Length |-> DirectoryDescriptorSize],
                     Descriptor |-> [Index |-> VA_FS_INVALID_BLOCK,
                                     Offset |-> VA_FS_INVALID_OFFSET],
                     Permissions |-> permissions],
     State |-> "Open", Entries |-> <<>>]

\* __initialize_symlink_descriptor with the node of __create_symlink_entry
NewSymlink(name, target) ==
    [Type |-> VA_FS_DESCRIPTOR_TYPE_SYMLINK, Name |-> name, Target |-> target,
     Descriptor |-> [Base |-> [Type |-> VA_FS_DESCRIPTOR_TYPE_SYMLINK,
                               Length |-> SymlinkDescriptorSize],
                     NameLength |-> 0, TargetLength |-> 0]]

\* the devices the two streams of an image sit on: their temporary devices
\* in write mode, the image device in read mode
DescriptorDevice(vafs) ==
    IF vafs.Mode = "Read" THEN vafs.ImageDevice ELSE vafs.DescriptorDevice

DataDevice(vafs) ==
    IF vafs.Mode = "Read" THEN vafs.ImageDevice ELSE vafs.DataDevice

SetDescriptor(vafs, stream, dev) ==
    IF vafs.Mode = "Read"
        THEN [vafs EXCEPT !.DescriptorStream = stream, !.ImageDevice = dev]
        ELSE [vafs EXCEPT !.DescriptorStream = stream, !.DescriptorDevice = dev]

SetData(vafs, stream, dev) ==
    IF vafs.Mode = "Read"
        THEN [vafs EXCEPT !.DataStream = stream, !.ImageDevice = dev]
        ELSE [vafs EXCEPT !.DataStream = stream, !.DataDevice = dev]

\* an entry list that grows at its tail
AddEntryAtTail(vafs, directory, node) ==
    LET id == Len(vafs.Nodes) + 1
    IN [vafs EXCEPT !.Nodes = Append(@, node) ,
                    !.Nodes[directory].Entries = Append(@, id)]

\* __add_file_entry, __add_symlink_entry, __add_directory_entry: the new
\* node becomes the head of the directory's entry list
AddEntry(vafs, directory, node) ==
    LET id == Len(vafs.Nodes) + 1
    IN [vafs EXCEPT !.Nodes = Append(@, node) ,
                    !.Nodes[directory].Entries = <<id>> \o @]

(***************************************************************************)
(* Descriptor tree, read mode: lazy load of a directory                    *)
(***************************************************************************)
\* __get_descriptor_size
GetDescriptorSize(type) ==
    CASE type = VA_FS_DESCRIPTOR_TYPE_FILE -> FileDescriptorSize
      [] type = VA_FS_DESCRIPTOR_TYPE_DIRECTORY -> DirectoryDescriptorSize
      [] type = VA_FS_DESCRIPTOR_TYPE_SYMLINK -> SymlinkDescriptorSize
      [] OTHER -> 0

\* the failure returns of __read_descriptor
DescriptorFailed(r) ==
    [stream |-> r.stream, dev |-> r.dev, status |-> -1, cells |-> <<>>, ext |-> <<>>]
\* __read_descriptor once the rest of the fixed part was read: a longer
\* descriptor has its strings read next
ReadDescriptorExtension(r1, size, r2) ==
    LET Extended(r3) ==
            IF r3.status # 0 THEN DescriptorFailed(r3)
            ELSE [stream |-> r3.stream, dev |-> r3.dev, status |-> 0,
                  cells |-> r1.data \o r2.data, ext |-> r3.data]
    IN IF r2.status # 0 THEN DescriptorFailed(r2)
       ELSE IF r1.data[2] <= size
           THEN [stream |-> r2.stream, dev |-> r2.dev, status |-> 0,
                 cells |-> r1.data \o r2.data, ext |-> <<>>]
       ELSE Extended(StreamRead(r2.stream, r2.dev, r1.data[2] - size))
\* __read_descriptor once the base descriptor was read: type and length
\* are checked and the rest of the fixed part is read
ReadDescriptorBase(r1) ==
    IF r1.status # 0 THEN DescriptorFailed(r1)
    ELSE IF r1.data[2] < DescriptorBaseSize \/ GetDescriptorSize(r1.data[1]) = 0
        THEN DescriptorFailed(r1)
    ELSE IF r1.data[2] <= DescriptorBaseSize
        THEN [stream |-> r1.stream, dev |-> r1.dev, status |-> 0,
              cells |-> r1.data, ext |-> <<>>]
    ELSE ReadDescriptorExtension(
             r1, GetDescriptorSize(r1.data[1]),
             StreamRead(r1.stream, r1.dev,
                        GetDescriptorSize(r1.data[1]) - DescriptorBaseSize))
\* __read_descriptor: cells is the fixed part, ext the variable part
ReadDescriptor(stream, dev) ==
    ReadDescriptorBase(StreamRead(stream, dev, DescriptorBaseSize))

\* __read_extended_string
ReadExtendedString(buffer, start, length) ==
    [i \in 1..length |-> CharAt(buffer, start + i - 1)]

\* __create_file_from_descriptor
CreateFileFromDescriptor(c, ext) ==
    [Type |-> VA_FS_DESCRIPTOR_TYPE_FILE,
     Name |-> ReadExtendedString(ext, 0, c[2] - FileDescriptorSize),
     Descriptor |-> [Base |-> [Type |-> c[1], Length |-> c[2]],
                     Data |-> [Index |-> c[3], Offset |-> c[4]],
                     FileLength |-> c[5], Permissions |-> c[6]]]

\* __create_directory_from_descriptor
CreateDirectoryFromDescriptor(c, ext) ==
    [Type |-> VA_FS_DESCRIPTOR_TYPE_DIRECTORY,
     Name |-> ReadExtendedString(ext, 0, c[2] - DirectoryDescriptorSize),
     Descriptor |-> [Base |-> [Type |-> c[1], Length |-> c[2]],
                     Descriptor |-> [Index |-> c[3], Offset |-> c[4]],
                     Permissions |-> c[5]],
     State |-> "Open", Entries |-> <<>>]

\* __create_symlink_from_descriptor
CreateSymlinkFromDescriptor(c, ext) ==
    [Type |-> VA_FS_DESCRIPTOR_TYPE_SYMLINK,
     Name |-> ReadExtendedString(ext, 0, c[3]),
     Target |-> ReadExtendedString(ext, c[3], c[4]),
     Descriptor |-> [Base |-> [Type |-> c[1], Length |-> c[2]],
                     NameLength |-> c[3], TargetLength |-> c[4]]]

\* __create_entry_from_descriptor
CreateEntryFromDescriptor(c, ext) ==
    CASE c[1] = VA_FS_DESCRIPTOR_TYPE_FILE -> CreateFileFromDescriptor(c, ext)
      [] c[1] = VA_FS_DESCRIPTOR_TYPE_DIRECTORY -> CreateDirectoryFromDescriptor(c, ext)
      [] c[1] = VA_FS_DESCRIPTOR_TYPE_SYMLINK -> CreateSymlinkFromDescriptor(c, ext)

\* the entry loop of __load_directory: every entry read is linked in as
\* the new head before the next one is read
RECURSIVE LoadEntries(_, _, _)
LoadEntries(vafs, directory, remaining) ==
    IF remaining = 0 THEN [vafs |-> vafs, status |-> 0]
    ELSE
        LET Read(d) ==
                LET v1 == SetDescriptor(vafs, d.stream, d.dev)
                IN IF d.status # 0 THEN [vafs |-> v1, status |-> d.status]
                   ELSE LoadEntries(
                            AddEntry(v1, directory,
                                     CreateEntryFromDescriptor(d.cells, d.ext)),
                            directory, remaining - 1)
        IN Read(ReadDescriptor(vafs.DescriptorStream, DescriptorDevice(vafs)))

\* a load that returns with the descriptor stream still locked
KeepDescriptorStreamLocked(vafs) == vafs

\* vafs_stream_unlock on the descriptor stream
UnlockDescriptorStream(vafs) ==
    SetDescriptor(vafs, vafs.DescriptorStream, DeviceUnlock(DescriptorDevice(vafs)))
\* __load_directory once the directory header was read: the entries are
\* read, the stream is unlocked and the directory is marked loaded
LoadDirectoryEntries(vafs, directory, h) ==
    LET Listed(e) ==
            IF e.status # 0
                THEN [vafs |-> UnlockDescriptorStream(e.vafs), status |-> e.status]
                ELSE [vafs |-> [UnlockDescriptorStream(e.vafs) EXCEPT
                                   !.Nodes[directory].State = "Loaded"],
                      status |-> 0]
    IN IF h.status # 0
           THEN [vafs |-> UnlockDescriptorStream(SetDescriptor(vafs, h.stream, h.dev)),
                 status |-> h.status]
           ELSE Listed(LoadEntries(SetDescriptor(vafs, h.stream, h.dev),
                                   directory, h.data[1]))
\* __load_directory once the stream was sought to the directory: the
\* directory header is read
LoadDirectoryHeader(vafs, directory, sk) ==
    IF sk.status # 0
        THEN [vafs |-> UnlockDescriptorStream(SetDescriptor(vafs, sk.stream, sk.dev)),
              status |-> sk.status]
        ELSE LoadDirectoryEntries(SetDescriptor(vafs, sk.stream, sk.dev), directory,
                                  StreamRead(sk.stream, sk.dev, DirectoryHeaderSize))
\* __load_directory
LoadDirectory(vafs, directory) ==
    LET position == vafs.Nodes[directory].Descriptor.Descriptor
        l == DeviceLock(DescriptorDevice(vafs))
    IN IF position.Index = VA_FS_INVALID_BLOCK
           THEN [vafs |-> [vafs EXCEPT !.Nodes[directory].State = "Loaded"],
                 status |-> 0]
       ELSE IF l.status # 0 THEN [vafs |-> vafs, status |-> l.status]
       ELSE LoadDirectoryHeader(vafs, directory,
                                StreamSeek(vafs.DescriptorStream, l.dev,
                                           position.Index, position.Offset))

\* __get_first_entry: the entry list, after a load where one is due
GetFirstEntry(vafs, directory) ==
    LET Loaded(l) ==
            IF l.status # 0
                THEN [vafs |-> l.vafs, entries |-> <<>>]
                ELSE [vafs |-> l.vafs, entries |-> l.vafs.Nodes[directory].Entries]
    IN IF vafs.Mode = "Read" /\ vafs.Nodes[directory].State # "Loaded"
           THEN Loaded(LoadDirectory(vafs, directory))
           ELSE [vafs |-> vafs, entries |-> vafs.Nodes[directory].Entries]

\* __vafs_directory_entries
VafsDirectoryEntries(vafs, directory) == GetFirstEntry(vafs, directory)

\* the first entry of a list that carries the name, 0 when there is none
RECURSIVE EntryNamed(_, _, _)
EntryNamed(nodes, entries, token) ==
    IF entries = <<>> THEN 0
    ELSE IF nodes[Head(entries)].Name = token THEN Head(entries)
    ELSE EntryNamed(nodes, Tail(entries), token)

\* a lookup that finds no entry under any name
FindNoEntry(vafs, directory, token) == [vafs |-> vafs, entry |-> 0]

\* __find_entry
FindEntry(vafs, directory, token) ==
    LET Found(f) ==
            [vafs |-> f.vafs, entry |-> EntryNamed(f.vafs.Nodes, f.entries, token)]
    IN Found(GetFirstEntry(vafs, directory))

(***************************************************************************)
(* Descriptor tree, write mode                                             *)
(***************************************************************************)
CreateFailed(vafs, errno) == [vafs |-> vafs, status |-> -1, errno |-> errno, node |-> 0]

\* a create call that leaves the overview as it was
CreateEntryUncounted(vafs, directory, name, argument, count) ==
    LET t == GetPathToken(name, DirectoryTokenSize)
        Found(f) ==
            LET v1 == AddEntry(f.vafs, directory,
                          CASE count = "Directories" -> NewDirectory(t.token, argument)
                            [] count = "Files" -> NewFile(t.token, argument)
                            [] count = "Symlinks" -> NewSymlink(t.token, argument))
            IN IF f.entry # 0 THEN CreateFailed(f.vafs, "EEXIST")
               ELSE [vafs |-> v1, status |-> 0, errno |-> "OK", node |-> Len(v1.Nodes)]
    IN IF t.consumed = 0 THEN CreateFailed(vafs, "ENOENT")
       ELSE Found(FindEntry(vafs, directory, t.token))

\* the shared body of the three create calls once the mode was checked;
\* count names the overview counter and so the kind of node created
CreateEntry(vafs, directory, name, argument, count) ==
    LET t == GetPathToken(name, DirectoryTokenSize)
        Found(f) ==
            LET v1 == AddEntry(f.vafs, directory,
                          CASE count = "Directories" -> NewDirectory(t.token, argument)
                            [] count = "Files" -> NewFile(t.token, argument)
                            [] count = "Symlinks" -> NewSymlink(t.token, argument))
            IN IF f.entry # 0 THEN CreateFailed(f.vafs, "EEXIST")
               ELSE [vafs |-> [v1 EXCEPT !.Overview.Counts[count] = @ + 1],
                     status |-> 0, errno |-> "OK", node |-> Len(v1.Nodes)]
    IN IF t.consumed = 0 THEN CreateFailed(vafs, "ENOENT")
       ELSE Found(FindEntry(vafs, directory, t.token))

\* vafs_directory_create_directory with __create_directory_entry
DirectoryCreateDirectory(vafs, directory, name, permissions) ==
    IF vafs.Mode # "Write" THEN CreateFailed(vafs, "EACCES")
    ELSE CreateEntry(vafs, directory, name, permissions, "Directories")

\* vafs_directory_create_file with __create_file_entry; the caller wraps
\* the node in a handle
DirectoryCreateFile(vafs, directory, name, permissions) ==
    IF vafs.Mode # "Write" THEN CreateFailed(vafs, "EACCES")
    ELSE CreateEntry(vafs, directory, name, permissions, "Files")

\* vafs_directory_create_symlink with __create_symlink_entry
DirectoryCreateSymlink(vafs, directory, name, target) ==
    IF vafs.Mode # "Write" THEN CreateFailed(vafs, "EACCES")
    ELSE CreateEntry(vafs, directory, name, target, "Symlinks")

\* __create_handle
DirectoryCreateHandle(directory) == [Directory |-> directory, Index |-> 0]

LookupFailed(vafs, errno) == [vafs |-> vafs, status |-> -1, errno |-> errno, node |-> 0]

\* the shared body of the three lookups by name once the mode was checked:
\* type is the entry type the call asks for, mismatch its errno for an
\* entry of another type
LookupEntry(vafs, directory, name, type, mismatch) ==
    LET t == GetPathToken(name, DirectoryTokenSize)
        Found(f) ==
            IF f.entry = 0 THEN LookupFailed(f.vafs, "ENOENT")
            ELSE IF f.vafs.Nodes[f.entry].Type # type
                THEN LookupFailed(f.vafs, mismatch)
            ELSE [vafs |-> f.vafs, status |-> 0, errno |-> "OK", node |-> f.entry]
    IN IF t.consumed = 0 THEN LookupFailed(vafs, "ENOENT")
       ELSE Found(FindEntry(vafs, directory, t.token))

\* vafs_directory_open_directory: node is the directory of the new handle
DirectoryOpenDirectory(vafs, directory, name) ==
    IF vafs.Mode # "Read" THEN LookupFailed(vafs, "EACCES")
    ELSE LookupEntry(vafs, directory, name, VA_FS_DESCRIPTOR_TYPE_DIRECTORY, "ENOTDIR")

\* vafs_directory_open_file: node is the file of the new handle
DirectoryOpenFile(vafs, directory, name) ==
    IF vafs.Mode # "Read" THEN LookupFailed(vafs, "EACCES")
    ELSE LookupEntry(vafs, directory, name, VA_FS_DESCRIPTOR_TYPE_FILE, "ENFILE")

\* vafs_directory_read_symlink: node is the symlink whose target is returned
DirectoryReadSymlink(vafs, directory, name) ==
    IF vafs.Mode # "Read" THEN LookupFailed(vafs, "EACCES")
    ELSE LookupEntry(vafs, directory, name, VA_FS_DESCRIPTOR_TYPE_SYMLINK, "EINVAL")

\* vafs_directory_read: the entry at the handle's index, counted from the
\* head of the entry list
DirectoryRead(vafs, handle) ==
    LET Listed(f) ==
            IF handle.Index >= Len(f.entries)
                THEN [vafs |-> f.vafs, handle |-> handle, status |-> -1,
                      errno |-> "ENOENT", name |-> <<>>, type |-> 0]
                ELSE [vafs |-> f.vafs,
                      handle |-> [handle EXCEPT !.Index = @ + 1],
                      status |-> 0, errno |-> "OK",
                      name |-> f.vafs.Nodes[f.entries[handle.Index + 1]].Name,
                      type |-> f.vafs.Nodes[f.entries[handle.Index + 1]].Type]
    IN Listed(GetFirstEntry(vafs, handle.Directory))

FileDescriptorCells(d) ==
    <<d.Base.Type, d.Base.Length, d.Data.Index, d.Data.Offset,
      d.FileLength, d.Permissions>>

DirectoryDescriptorCells(d) ==
    <<d.Base.Type, d.Base.Length, d.Descriptor.Index, d.Descriptor.Offset,
      d.Permissions>>

SymlinkDescriptorCells(d) ==
    <<d.Base.Type, d.Base.Length, d.NameLength, d.TargetLength>>

\* a sequence of vafs_stream_write calls on the descriptor stream that
\* stops at the first failure
RECURSIVE WriteDescriptorParts(_, _)
WriteDescriptorParts(vafs, parts) ==
    IF parts = <<>> THEN [vafs |-> vafs, status |-> 0]
    ELSE LET Written(w) ==
                 LET v1 == SetDescriptor(vafs, w.stream, w.dev)
                 IN IF w.status # 0 THEN [vafs |-> v1, status |-> w.status]
                    ELSE WriteDescriptorParts(v1, Tail(parts))
         IN Written(StreamWrite(vafs.DescriptorStream, DescriptorDevice(vafs),
                                Head(parts)))

\* __write_directory_header
WriteDirectoryHeader(vafs, count) == WriteDescriptorParts(vafs, << <<count>> >>)

\* the cast to uint16_t and the arithmetic of a uint16_t field
Uint16(x) == x % Uint16Modulus

\* 'Base.Length += (uint16_t)strlen(Name)' of __write_file_descriptor and
\* __write_directory_descriptor
NamedLength(base, nameLength) ==
    [base EXCEPT !.Length = Uint16(@ + Uint16(nameLength))]

\* the three length fields as __write_symlink_descriptor sets them
SymlinkLengths(descriptor, nameLength, targetLength) ==
    [descriptor EXCEPT !.NameLength = Uint16(nameLength),
                       !.TargetLength = Uint16(targetLength),
                       !.Base.Length = Uint16(Uint16(@ + Uint16(nameLength))
                                                  + Uint16(targetLength))]

\* __write_file_descriptor
WriteFileDescriptor(vafs, entry) ==
    LET v1 == [vafs EXCEPT !.Nodes[entry].Descriptor.Base =
                               NamedLength(@, Len(vafs.Nodes[entry].Name))]
        n == v1.Nodes[entry]
    IN WriteDescriptorParts(v1, <<FileDescriptorCells(n.Descriptor), n.Name>>)

\* __write_directory_descriptor
WriteDirectoryDescriptor(vafs, entry) ==
    LET v1 == [vafs EXCEPT !.Nodes[entry].Descriptor.Base =
                               NamedLength(@, Len(vafs.Nodes[entry].Name))]
        n == v1.Nodes[entry]
    IN WriteDescriptorParts(v1, <<DirectoryDescriptorCells(n.Descriptor), n.Name>>)

\* __write_symlink_descriptor
WriteSymlinkDescriptor(vafs, entry) ==
    LET n0 == vafs.Nodes[entry]
        v1 == [vafs EXCEPT !.Nodes[entry].Descriptor =
                  SymlinkLengths(@, Len(n0.Name), Len(n0.Target))]
        n == v1.Nodes[entry]
    IN WriteDescriptorParts(v1, <<SymlinkDescriptorCells(n.Descriptor),
                                  n.Name, n.Target>>)

\* the second loop of vafs_directory_flush: one descriptor per entry, from
\* the head of the list
RECURSIVE WriteDescriptors(_, _)
WriteDescriptors(vafs, entries) ==
    IF entries = <<>> THEN [vafs |-> vafs, status |-> 0]
    ELSE
        LET entry == Head(entries)
            type == vafs.Nodes[entry].Type
            Written(w) ==
                IF w.status # 0 THEN w ELSE WriteDescriptors(w.vafs, Tail(entries))
        IN Written(CASE type = VA_FS_DESCRIPTOR_TYPE_FILE ->
                            WriteFileDescriptor(vafs, entry)
                     [] type = VA_FS_DESCRIPTOR_TYPE_DIRECTORY ->
                            WriteDirectoryDescriptor(vafs, entry)
                     [] type = VA_FS_DESCRIPTOR_TYPE_SYMLINK ->
                            WriteSymlinkDescriptor(vafs, entry))

\* a first loop that flushes no subdirectory
FlushNoSubdirectory(vafs, entries) == vafs

RECURSIVE DirectoryFlush(_, _)
\* the first loop of vafs_directory_flush: every subdirectory is flushed,
\* the status of that flush is dropped
RECURSIVE FlushSubdirectories(_, _)
FlushSubdirectories(vafs, entries) ==
    IF entries = <<>> THEN vafs
    ELSE IF vafs.Nodes[Head(entries)].Type = VA_FS_DESCRIPTOR_TYPE_DIRECTORY
        THEN FlushSubdirectories(DirectoryFlush(vafs, Head(entries)).vafs,
                                 Tail(entries))
    ELSE FlushSubdirectories(vafs, Tail(entries))

\* vafs_directory_flush
DirectoryFlush(vafs, directory) ==
    LET entries == vafs.Nodes[directory].Entries
        Headed(h) ==
            IF h.status # 0 THEN h ELSE WriteDescriptors(h.vafs, entries)
        Flushed(v1) ==
            Headed(WriteDirectoryHeader(
                       [v1 EXCEPT !.Nodes[directory].Descriptor.Descriptor =
                                      StreamPosition(v1.DescriptorStream)],
                       Len(entries)))
    IN Flushed(FlushSubdirectories(vafs, entries))

(***************************************************************************)
(* File handles                                                            *)
(***************************************************************************)
\* vafs_file_create_handle
FileCreateHandle(file) == [File |-> file, State |-> "Open", Position |-> 0]

\* a vafs_file_close that unlocks the data stream for every handle
FileCloseUnlocks(vafs, handle) ==
    SetData(vafs, vafs.DataStream, DeviceUnlock(DataDevice(vafs)))

\* a vafs_file_close that leaves the data stream locked
FileCloseKeepLock(vafs, handle) == vafs

\* vafs_file_close: the vafs after the call
FileClose(vafs, handle) ==
    IF handle.State = "Write"
        THEN SetData(vafs, vafs.DataStream, DeviceUnlock(DataDevice(vafs)))
        ELSE vafs

\* vafs_file_seek: Position is unsigned, so a target below zero wraps to a
\* value above every file length before it is clamped
FileSeek(vafs, handle, offset, whence) ==
    IF vafs.Mode = "Write"
        THEN [handle |-> handle, status |-> -1, errno |-> "ENOTSUP"]
    ELSE IF whence \notin {SEEK_SET, SEEK_CUR, SEEK_END}
        THEN [handle |-> handle, status |-> -1, errno |-> "EINVAL"]
    ELSE LET length == vafs.Nodes[handle.File].Descriptor.FileLength
             raw == CASE whence = SEEK_SET -> offset
                      [] whence = SEEK_CUR -> handle.Position + offset
                      [] whence = SEEK_END -> length + offset
             position == IF raw < 0 THEN length ELSE Min(raw, length)
         IN [handle |-> [handle EXCEPT !.Position = position],
             status |-> 0, errno |-> "OK"]

\* vafs_file_read: status is the value returned, data the cells copied
\* into the caller's buffer
FileRead(vafs, handle, size) ==
    IF vafs.Mode = "Write"
        THEN [vafs |-> vafs, status |-> -1, errno |-> "ENOTSUP", data |-> <<>>]
    ELSE
        LET file == vafs.Nodes[handle.File].Descriptor
            unlocked(v) == SetData(v, v.DataStream, DeviceUnlock(DataDevice(v)))
            Read(v1, r) ==
                [vafs |-> unlocked(SetData(v1, r.stream, r.dev)),
                 status |-> r.status, errno |-> r.errno, data |-> r.data]
            Sought(sk) ==
                LET v1 == SetData(vafs, sk.stream, sk.dev)
                IN IF sk.status # 0
                       THEN [vafs |-> unlocked(v1), status |-> -1,
                             errno |-> sk.errno, data |-> <<>>]
                       ELSE Read(v1, StreamRead(sk.stream, sk.dev, size))
            Locked(l) ==
                IF l.status # 0
                    THEN [vafs |-> vafs, status |-> -1, errno |-> l.errno,
                          data |-> <<>>]
                    ELSE Sought(StreamSeek(vafs.DataStream, l.dev, file.Data.Index,
                                           file.Data.Offset + handle.Position))
        IN Locked(DeviceLock(DataDevice(vafs)))

\* vafs_file_write
FileWrite(vafs, handle, data) ==
    IF Len(data) = 0
        THEN [vafs |-> vafs, handle |-> handle, status |-> -1, errno |-> "EINVAL"]
    ELSE IF vafs.Mode = "Read"
        THEN [vafs |-> vafs, handle |-> handle, status |-> -1, errno |-> "ENOTSUP"]
    ELSE
        LET h1 == [handle EXCEPT !.State = "Write"]
            Written(v2, w) ==
                LET v3 == SetData(v2, w.stream, w.dev)
                IN IF w.status # 0
                       THEN [vafs |-> v3, handle |-> h1, status |-> -1,
                             errno |-> "EIO"]
                       ELSE [vafs |-> [v3 EXCEPT
                                 !.Nodes[h1.File].Descriptor.FileLength =
                                     @ + Len(data),
                                 !.Overview.TotalSizeUncompressed = @ + Len(data)],
                             handle |-> h1, status |-> 0, errno |-> "OK"]
            Positioned(v2) ==
                Written(v2, StreamWrite(v2.DataStream, DataDevice(v2), data))
            Claimed(v1) ==
                Positioned(IF v1.Nodes[h1.File].Descriptor.Data.Offset
                                  = VA_FS_INVALID_OFFSET
                               THEN [v1 EXCEPT !.Nodes[h1.File].Descriptor.Data =
                                                   StreamPosition(v1.DataStream)]
                               ELSE v1)
            Locked(l) ==
                IF l.status # 0
                    THEN [vafs |-> vafs, handle |-> handle, status |-> -1,
                          errno |-> l.errno]
                    ELSE Claimed(SetData(vafs, vafs.DataStream, l.dev))
        IN Locked(IF handle.State # "Write"
                      THEN DeviceLock(DataDevice(vafs))
                      ELSE [dev |-> DataDevice(vafs), status |-> 0, errno |-> "OK"])

(***************************************************************************)
(* Paths: symlink resolution, open by path, stat by path                   *)
(***************************************************************************)
\* the separator rule shared by both loops of __vafs_resolve_symlink
AppendSeparator(buffer) ==
    IF Len(buffer) > 0 /\ buffer[Len(buffer)] # Slash
        THEN Append(buffer, Slash) ELSE buffer

\* the first loop of __vafs_resolve_symlink: the cleaned base path
RECURSIVE ResolveBase(_, _, _, _, _)
ResolveBase(buffer, bufferLength, base, baseLength, i) ==
    IF ~(i < baseLength /\ Len(buffer) < bufferLength) THEN buffer
    ELSE IF CharAt(base, i) = Slash
        THEN ResolveBase(AppendSeparator(buffer), bufferLength, base, baseLength, i + 1)
    ELSE ResolveBase(Append(buffer, CharAt(base, i)), bufferLength, base,
                     baseLength, i + 1)

\* the effect of "../": drop the last cell, then all cells back to a separator
RECURSIVE DropToSeparator(_)
DropToSeparator(buffer) ==
    IF Len(buffer) > 0 /\ buffer[Len(buffer)] # Slash
        THEN DropToSeparator(SubSeq(buffer, 1, Len(buffer) - 1))
        ELSE buffer

GoBackOneLevel(buffer) ==
    IF Len(buffer) > 0 THEN DropToSeparator(SubSeq(buffer, 1, Len(buffer) - 1))
                       ELSE buffer

\* the second loop of __vafs_resolve_symlink: the target appended
RECURSIVE ResolveTarget(_, _, _, _)
ResolveTarget(buffer, bufferLength, target, i) ==
    IF ~(i < Len(target) /\ Len(buffer) < bufferLength) THEN buffer
    ELSE IF CharAt(target, i) = Slash
        THEN ResolveTarget(AppendSeparator(buffer), bufferLength, target, i + 1)
    ELSE IF CharAt(target, i) = Dot
        THEN IF CharAt(target, i + 1) = Slash
                 THEN ResolveTarget(buffer, bufferLength, target, i + 2)
             ELSE IF CharAt(target, i + 1) = Dot /\ CharAt(target, i + 2) = Slash
                 THEN ResolveTarget(GoBackOneLevel(buffer), bufferLength, target, i + 3)
             ELSE ResolveTarget(buffer, bufferLength, target, i + 1)
    ELSE ResolveTarget(Append(buffer, CharAt(target, i)), bufferLength, target, i + 1)

\* __vafs_resolve_symlink: the path left in the buffer
ResolveSymlink(bufferLength, base, baseLength, target) ==
    ResolveTarget(ResolveBase(<<>>, bufferLength, base, baseLength, 0),
                  bufferLength, target, 0)

\* __vafs_pathtoken
VafsPathToken(path, tokenSize) == GetPathToken(path, tokenSize)

OpenFailed(vafs, errno) == [vafs |-> vafs, status |-> -1, errno |-> errno, file |-> 0]

\* vafs_file_open: file is the node the returned handle refers to.  The
\* call recurses once per symlink met; depth counts the recursions left
\* before the walk is reported as not returning.
RECURSIVE FileOpen(_, _, _)
RECURSIVE FileOpenWalk(_, _, _, _)
FileOpenWalk(d, path, offset, depth) ==
    LET t == VafsPathToken(SubSeq(path, offset + 1, Len(path)), FileTokenSize)
        next == offset + t.consumed
        entry == EntryNamed(d.vafs.Nodes, d.entries, t.token)
    IN IF t.consumed = 0 THEN OpenFailed(d.vafs, t.errno)
       ELSE IF entry = 0
           THEN FileOpenWalk([vafs |-> d.vafs, entries |-> <<>>], path, next, depth)
       ELSE IF d.vafs.Nodes[entry].Type = VA_FS_DESCRIPTOR_TYPE_DIRECTORY
           THEN IF next >= Len(path) THEN OpenFailed(d.vafs, "EISDIR")
                ELSE FileOpenWalk(VafsDirectoryEntries(d.vafs, entry), path, next,
                                  depth)
       ELSE IF d.vafs.Nodes[entry].Type = VA_FS_DESCRIPTOR_TYPE_SYMLINK
           THEN FileOpen(d.vafs,
                         ResolveSymlink(VAFS_PATH_MAX, path, next,
                                        d.vafs.Nodes[entry].Target),
                         depth - 1)
       ELSE IF next < Len(path) THEN OpenFailed(d.vafs, "EISDIR")
       ELSE [vafs |-> d.vafs, status |-> 0, errno |-> "OK", file |-> entry]

FileOpen(vafs, path, depth) ==
    IF depth = 0 THEN OpenFailed(vafs, "no return")
    ELSE IF IsRootPath(path) THEN OpenFailed(vafs, "EISDIR")
    ELSE FileOpenWalk(VafsDirectoryEntries(vafs, vafs.RootDirectory), path, 0, depth)

StatFailed(vafs, errno) ==
    [vafs |-> vafs, status |-> -1, errno |-> errno,
     stat |-> [type |-> "none", permissions |-> 0, size |-> 0]]

\* vafs_path_stat
RECURSIVE PathStat(_, _, _)
RECURSIVE PathStatWalk(_, _, _, _)
PathStatWalk(d, path, offset, depth) ==
    LET t == VafsPathToken(SubSeq(path, offset + 1, Len(path)), FileTokenSize)
        next == offset + t.consumed
        entry == EntryNamed(d.vafs.Nodes, d.entries, t.token)
    IN IF t.consumed = 0 THEN StatFailed(d.vafs, "ENOENT")
       ELSE IF entry = 0
           THEN PathStatWalk([vafs |-> d.vafs, entries |-> <<>>], path, next, depth)
       ELSE IF d.vafs.Nodes[entry].Type = VA_FS_DESCRIPTOR_TYPE_DIRECTORY
           THEN IF next >= Len(path)
                    THEN [vafs |-> d.vafs, status |-> 0, errno |-> "OK",
                          stat |-> [type |-> "S_IFDIR",
                                    permissions |->
                                        d.vafs.Nodes[entry].Descriptor.Permissions,
                                    size |-> 0]]
                    ELSE PathStatWalk(VafsDirectoryEntries(d.vafs, entry), path,
                                      next, depth)
       ELSE IF d.vafs.Nodes[entry].Type = VA_FS_DESCRIPTOR_TYPE_SYMLINK
           THEN PathStat(d.vafs,
                         ResolveSymlink(VAFS_PATH_MAX, path, next,
                                        d.vafs.Nodes[entry].Target),
                         depth - 1)
       ELSE IF next < Len(path) THEN StatFailed(d.vafs, "ENOTDIR")
       ELSE [vafs |-> d.vafs, status |-> 0, errno |-> "OK",
             stat |-> [type |-> "S_IFREG",
                       permissions |-> d.vafs.Nodes[entry].Descriptor.Permissions,
                       size |-> d.vafs.Nodes[entry].Descriptor.FileLength]]

PathStat(vafs, path, depth) ==
    IF depth = 0 THEN StatFailed(vafs, "no return")
    ELSE IF IsRootPath(path)
        THEN [vafs |-> vafs, status |-> 0, errno |-> "OK",
              stat |-> [type |-> "S_IFDIR", permissions |-> RootStatPermissions,
                        size |-> 0]]
    ELSE PathStatWalk(VafsDirectoryEntries(vafs, vafs.RootDirectory), path, 0, depth)

(***************************************************************************)
(* Image engine                                                            *)
(***************************************************************************)
ImageHeaderCells(h) ==
    <<h.Magic, h.Version, h.Architecture, h.FeatureCount, h.Reserved,
      h.Attributes, h.DescriptorBlockOffset, h.DataBlockOffset,
      h.RootDescriptor.Index, h.RootDescriptor.Offset>>

ImageHeaderFromCells(c) ==
    [Magic |-> c[1], Version |-> c[2], Architecture |-> c[3],
     FeatureCount |-> c[4], Reserved |-> c[5], Attributes |-> c[6],
     DescriptorBlockOffset |-> c[7], DataBlockOffset |-> c[8],
     RootDescriptor |-> [Index |-> c[9], Offset |-> c[10]]]

\* struct VaFsFeatureOverview as a feature record
OverviewCells(o) ==
    <<VA_FS_FEATURE_OVERVIEW, OverviewFeatureSize, o.TotalSizeUncompressed,
      o.Counts.Files, o.Counts.Directories, o.Counts.Symlinks>>

ZeroOverview ==
    [TotalSizeUncompressed |-> 0,
     Counts |-> [Files |-> 0, Directories |-> 0, Symlinks |-> 0]]

\* vafs_create: the image device, two temporary memory devices with a
\* stream each, a zeroed overview and the root directory
VafsCreate(architecture, blockSize, filter) ==
    LET Created(ds, dt) ==
            [Mode |-> "Write",
             Header |-> [Magic |-> VA_FS_MAGIC, Version |-> VA_FS_VERSION,
                         Architecture |-> architecture, FeatureCount |-> 0,
                         Reserved |-> 0, Attributes |-> 0,
                         DescriptorBlockOffset |-> 0, DataBlockOffset |-> 0,
                         RootDescriptor |-> [Index |-> 0, Offset |-> 0]],
             Overview |-> ZeroOverview,
             ImageDevice |-> CreateMemoryDevice(ImageHeaderSize),
             DescriptorDevice |-> ds.dev,
             DescriptorStream |-> StreamSetFilter(ds.stream, filter),
             DataDevice |-> dt.dev,
             DataStream |-> StreamSetFilter(dt.stream, filter),
             Nodes |-> <<NewDirectory(RootName, RootPermissions)>>,
             RootDirectory |-> 1]
    IN Created(StreamCreate(CreateMemoryDevice(VA_FS_DESCRIPTOR_BLOCK_SIZE), 0,
                            VA_FS_DESCRIPTOR_BLOCK_SIZE),
               StreamCreate(CreateMemoryDevice(blockSize), 0, blockSize))

\* a transfer that stops after the first transfer buffer
DeviceCopyOnce(destination, source) ==
    LET Read(r) ==
            [destination |-> IF r.bytesRead = 0 THEN destination
                             ELSE MemoryWrite(destination, r.data).dev,
             source |-> r.dev, status |-> 0]
    IN Read(MemoryRead(source, TRANSFER_BUFFER_SIZE))

\* the transfer loop of vafs_streamdevice_copy
RECURSIVE DeviceCopyLoop(_, _)
DeviceCopyLoop(destination, source) ==
    LET Written(r, w) ==
            IF w.status # 0 \/ w.bytesWritten # r.bytesRead
                THEN [destination |-> w.dev, source |-> r.dev, status |-> w.status]
                ELSE DeviceCopyLoop(w.dev, r.dev)
        Read(r) ==
            IF r.status # 0 \/ r.bytesRead = 0
                THEN [destination |-> destination, source |-> r.dev,
                      status |-> r.status]
                ELSE Written(r, MemoryWrite(destination, r.data))
    IN Read(MemoryRead(source, TRANSFER_BUFFER_SIZE))

\* a vafs_streamdevice_copy that reads the source from where it stands
DeviceCopyNoRewind(destination, source) ==
    IF destination.ReadOnly
        THEN [destination |-> destination, source |-> source, status |-> -1]
        ELSE DeviceCopyLoop(destination, source)

\* vafs_streamdevice_copy
DeviceCopy(destination, source) ==
    IF destination.ReadOnly
        THEN [destination |-> destination, source |-> source, status |-> -1]
        ELSE DeviceCopyLoop(destination, MemorySeek(source, 0, SEEK_SET).dev)

\* the storage backends of a device; a file-backed device is held as the
\* cells of the file (Buffer), its length (Size) and the file position
Backends == {"memory", "file"}

\* __file_seek: fseek and ftell, fails standing for an error of the file
FileDeviceSeek(dev, offset, whence, fails) ==
    IF offset = 0 /\ whence = SEEK_CUR
        THEN [dev |-> dev, pos |-> dev.Position]
    ELSE LET raw == CASE whence = SEEK_SET -> offset
                      [] whence = SEEK_CUR -> dev.Position + offset
                      [] whence = SEEK_END -> dev.Size + offset
         IN IF fails \/ raw < 0
                THEN [dev |-> dev, pos |-> -1]
                ELSE [dev |-> [dev EXCEPT !.Position = raw], pos |-> raw]

\* __file_read: fread delivers count cells, at most the cells the file has
\* left; fewer than length is reported as a failure
FileDeviceRead(dev, length, count) ==
    [dev |-> [dev EXCEPT !.Position = @ + count],
     data |-> Slice(dev.Buffer, dev.Position, count),
     bytesRead |-> count,
     status |-> IF count # length THEN -1 ELSE 0]

\* a file write that reports success whatever fwrite has taken
FileDeviceWriteQuiet(dev, data, count) ==
    [dev |-> MemoryWrite(dev, SubSeq(data, 1, count)).dev,
     bytesWritten |-> count, status |-> 0]

\* __file_write: fwrite takes count cells of the data; fewer than the data
\* is reported as a failure
FileDeviceWrite(dev, data, count) ==
    [dev |-> MemoryWrite(dev, SubSeq(data, 1, count)).dev,
     bytesWritten |-> count,
     status |-> IF count # Len(data) THEN -1 ELSE 0]

\* what the environment does to one vafs_streamdevice_copy: nothing, no
\* memory for the transfer buffer, a failing seek of a file source, a read
\* or write of the file in the given round of the loop that moves count
\* cells only, no memory to grow the destination in the given round
NoFault == [op |-> "none", round |-> 0, count |-> 0]

CopyFaults ==
    {NoFault}
    \cup [op : {"malloc", "seek"}, round : {0}, count : {0}]
    \cup [op : {"read", "write"}, round : 1..MaxFaultRound, count : 0..MaxFaultCount]
    \cup [op : {"nomem"}, round : 1..MaxFaultRound, count : {0}]

\* the faults the backends of the two devices can have
FaultOf(kinds, fault) ==
    CASE fault.op \in {"none", "malloc"} -> TRUE
      [] fault.op \in {"seek", "read"} -> kinds.source = "file"
      [] fault.op = "write" -> kinds.destination = "file"
      [] fault.op = "nomem" -> kinds.destination = "memory"

CopyEnded(destination, source, status, readFault, short, writeFault) ==
    [destination |-> destination, source |-> source, status |-> status,
     readFault |-> readFault, short |-> short, writeFault |-> writeFault]

\* the transfer loop of vafs_streamdevice_copy over the backends of the two
\* devices; readFault says that a read failed, short that a read so far
\* delivered cells but fewer than the transfer buffer holds, writeFault that
\* a write failed or came short
RECURSIVE BackendCopyLoop(_, _, _, _, _, _)
BackendCopyLoop(destination, source, kinds, fault, round, short) ==
    LET hit(op) == fault.op = op /\ fault.round = round
        left == source.Size - source.Position
        shortNow(r) ==
            short \/ (r.bytesRead > 0 /\ r.bytesRead < TRANSFER_BUFFER_SIZE)
        Written(r, w) ==
            IF w.status # 0 \/ w.bytesWritten # r.bytesRead
                THEN CopyEnded(w.dev, r.dev, w.status, FALSE, shortNow(r), TRUE)
                ELSE BackendCopyLoop(w.dev, r.dev, kinds, fault, round + 1,
                                     shortNow(r))
        Write(r) ==
            IF kinds.destination = "memory"
                THEN IF hit("nomem") /\ r.bytesRead > MemsizeAvailable(destination)
                         THEN MemoryWriteNoMemory(destination, r.data)
                         ELSE MemoryWrite(destination, r.data)
                ELSE FileDeviceWrite(destination, r.data,
                                     IF hit("write") THEN Min(fault.count, r.bytesRead)
                                     ELSE r.bytesRead)
        Read(r) ==
            IF r.status # 0 \/ r.bytesRead = 0
                THEN CopyEnded(destination, r.dev, r.status, r.status # 0,
                               shortNow(r), FALSE)
                ELSE Written(r, Write(r))
    IN Read(IF kinds.source = "memory"
                THEN MemoryRead(source, TRANSFER_BUFFER_SIZE)
                ELSE FileDeviceRead(source, TRANSFER_BUFFER_SIZE,
                                    IF hit("read") THEN Min(fault.count, left)
                                    ELSE Min(TRANSFER_BUFFER_SIZE, left)))

\* vafs_streamdevice_copy over the backends of the two devices
BackendCopy(destination, source, kinds, fault) ==
    IF destination.ReadOnly \/ fault.op = "malloc"
        THEN CopyEnded(destination, source, -1, FALSE, FALSE, FALSE)
    ELSE LET Sought(sk) ==
                 IF sk.pos # 0
                     THEN CopyEnded(destination, sk.dev, -1, FALSE, FALSE, FALSE)
                     ELSE BackendCopyLoop(destination, sk.dev, kinds, fault, 1,
                                          FALSE)
         IN Sought(IF kinds.source = "memory"
                       THEN MemorySeek(source, 0, SEEK_SET)
                       ELSE FileDeviceSeek(source, 0, SEEK_SET, fault.op = "seek"))

CloseFailed(vafs) == [vafs |-> vafs, status |-> -1]

\* vafs_close of a write-mode image: flush the tree in post-order, finish
\* the descriptor stream and then the data stream, write the image header
\* at offset 0 of the image device and the feature records behind it, then
\* copy the descriptor device and the data device behind those
AssembleImage(vafs, header, features) ==
    LET Copied(wh, wf, cd, ct) ==
            LET v3 == [vafs EXCEPT !.Header = header,
                                   !.ImageDevice = ct.destination,
                                   !.DescriptorDevice = cd.source,
                                   !.DataDevice = ct.source]
            IN IF wh.status # 0 \/ wf.status # 0 \/ cd.status # 0 \/ ct.status # 0
                   THEN CloseFailed(v3)
                   ELSE [vafs |-> v3, status |-> 0]
        CopiedDescriptors(wh, wf, cd) ==
            Copied(wh, wf, cd, DeviceCopy(cd.destination, vafs.DataDevice))
        WroteFeatures(wh, wf) ==
            CopiedDescriptors(wh, wf, DeviceCopy(wf.dev, vafs.DescriptorDevice))
        WroteHeader(wh) == WroteFeatures(wh, DeviceWrite(wh.dev, features))
    IN WroteHeader(DeviceWrite(DeviceSeek(vafs.ImageDevice, 0, SEEK_SET).dev,
                               ImageHeaderCells(header)))
\* vafs_close of an image in write mode: the tree is flushed, both streams
\* are finished and the image is assembled
VafsClose(vafs) ==
    LET Finished(v2) ==
            AssembleImage(v2,
                          [v2.Header EXCEPT
                              !.FeatureCount = 1,
                              !.DescriptorBlockOffset =
                                  ImageHeaderSize + Len(OverviewCells(v2.Overview)),
                              !.DataBlockOffset =
                                  ImageHeaderSize + Len(OverviewCells(v2.Overview))
                                      + v2.DescriptorDevice.Size,
                              !.RootDescriptor =
                                  v2.Nodes[v2.RootDirectory].Descriptor.Descriptor],
                          OverviewCells(v2.Overview))
        FinishedData(v1, ft) ==
            IF ft.status # 0 THEN CloseFailed(SetData(v1, ft.stream, ft.dev))
            ELSE Finished(SetData(v1, ft.stream, ft.dev))
        FinishedDescriptors(v0, fd) ==
            IF fd.status # 0 THEN CloseFailed(SetDescriptor(v0, fd.stream, fd.dev))
            ELSE FinishedData(SetDescriptor(v0, fd.stream, fd.dev),
                              StreamFinish(v0.DataStream,
                                           DataDevice(SetDescriptor(v0, fd.stream,
                                                                    fd.dev))))
        Flushed(f) ==
            IF f.status # 0 THEN CloseFailed(f.vafs)
            ELSE FinishedDescriptors(
                     f.vafs,
                     StreamFinish(f.vafs.DescriptorStream, DescriptorDevice(f.vafs)))
    IN Flushed(DirectoryFlush(vafs, vafs.RootDirectory))

\* vafs_directory_open_root: the permissions of a reader root are never set
DirectoryOpenRoot(position) ==
    [Type |-> VA_FS_DESCRIPTOR_TYPE_DIRECTORY, Name |-> RootName,
     Descriptor |-> [Base |-> [Type |-> VA_FS_DESCRIPTOR_TYPE_DIRECTORY,
                               Length |-> DirectoryDescriptorSize],
                     Descriptor |-> position,
                     Permissions |-> Uninit],
     State |-> "Open", Entries |-> <<>>]

\* the feature records behind the image header: the overview is kept
RECURSIVE ReadFeatures(_, _, _)
ReadFeatures(dev, remaining, overview) ==
    LET Body(h, b) ==
            IF b.status # 0 \/ b.bytesRead < h.data[2] - FeatureHeaderSize
                THEN [dev |-> b.dev, status |-> -1, overview |-> overview]
                ELSE ReadFeatures(b.dev, remaining - 1,
                         IF h.data[1] = VA_FS_FEATURE_OVERVIEW
                                /\ h.data[2] = OverviewFeatureSize
                             THEN [TotalSizeUncompressed |-> b.data[1],
                                   Counts |-> [Files |-> b.data[2],
                                               Directories |-> b.data[3],
                                               Symlinks |-> b.data[4]]]
                             ELSE overview)
        Header(h) ==
            IF h.status # 0 \/ h.bytesRead < FeatureHeaderSize
                   \/ h.data[2] <= FeatureHeaderSize
                THEN [dev |-> h.dev, status |-> -1, overview |-> overview]
                ELSE Body(h, DeviceRead(h.dev, h.data[2] - FeatureHeaderSize))
    IN IF remaining = 0 THEN [dev |-> dev, status |-> 0, overview |-> overview]
       ELSE Header(DeviceRead(dev, FeatureHeaderSize))

OpenImageFailed == [status |-> -1, vafs |-> <<>>]

\* vafs_open_memory: read the image header at offset 0, verify magic and
\* version, open the descriptor stream and the data stream at the offsets
\* the header gives, read the feature records and attach the reader root
VafsOpenMemory(buffer) ==
    LET Featured(header, ds, dt, f) ==
            IF f.status # 0 THEN OpenImageFailed
            ELSE [status |-> 0,
                  vafs |-> [Mode |-> "Read", Header |-> header,
                            Overview |-> f.overview,
                            ImageDevice |-> f.dev,
                            DescriptorDevice |-> f.dev,
                            DescriptorStream |-> ds.stream,
                            DataDevice |-> f.dev,
                            DataStream |-> dt.stream,
                            Nodes |-> <<DirectoryOpenRoot(header.RootDescriptor)>>,
                            RootDirectory |-> 1]]
        OpenedData(header, ds, dt) ==
            IF dt.status # 0 THEN OpenImageFailed
            ELSE Featured(header, ds, dt,
                          ReadFeatures(DeviceSeek(dt.dev, ImageHeaderSize,
                                                  SEEK_SET).dev,
                                       header.FeatureCount, ZeroOverview))
        OpenedDescriptors(header, ds) ==
            IF ds.status # 0 THEN OpenImageFailed
            ELSE OpenedData(header, ds,
                            StreamOpen(DeviceSeek(ds.dev, header.DataBlockOffset,
                                                  SEEK_SET).dev,
                                       header.DataBlockOffset))
        Verified(header, dev) ==
            IF header.Magic # VA_FS_MAGIC \/ header.Version # VA_FS_VERSION
                THEN OpenImageFailed
                ELSE OpenedDescriptors(
                         header,
                         StreamOpen(DeviceSeek(dev, header.DescriptorBlockOffset,
                                               SEEK_SET).dev,
                                    header.DescriptorBlockOffset))
        Read(r) ==
            IF r.status # 0 \/ r.bytesRead < ImageHeaderSize THEN OpenImageFailed
            ELSE Verified(ImageHeaderFromCells(r.data), r.dev)
    IN Read(DeviceRead(OpenMemoryDevice(buffer), ImageHeaderSize))

\* vafs_feature_add of the filter operations: attached to both streams
VafsFeatureAddFilter(vafs, filter) ==
    [vafs EXCEPT !.DescriptorStream = StreamSetFilter(@, filter),
                 !.DataStream = StreamSetFilter(@, filter)]

(***************************************************************************)
(* State                                                                   *)
(***************************************************************************)
VARIABLES
    wstream,    \* stream specification: the write-mode stream
    wdevice,    \* stream specification: its memory device
    wwritten,   \* stream specification: every cell accepted by a write so far
    wlast,      \* stream specification: the last call and its status
    bvafs,      \* build specification: the image engine (struct VaFs)
    bhandles,   \* build specification: the file handles that are open
    blog,       \* build specification: the entries created, in call order
    bpayload,   \* build specification: per file node, the cells written to it
    bphase,     \* build specification: "write", "closed" or "read"
    blast,      \* build specification: the last call and its result
    rvafs,      \* read specification: the image engine, opened for reading
    rhandle,    \* read specification: the open file handle, <<>> when none
    rexpected,  \* read specification: per file name, the cells written to it
    rcorrupt,   \* read specification: the data blocks damaged on the device
    rreads,     \* read specification: the number of vafs_file_read calls made
    rlast,      \* read specification: the last call and its result
    ccache,     \* cache specification: the block cache
    crequests,  \* cache specification: per index, the vafs_cache_get calls
    clast,      \* cache specification: the last call and its result
    hvafs,      \* handle specification: the image engine, in either mode
    hdir,       \* handle specification: the open directory handle
    hfile,      \* handle specification: the open file handle, <<>> when none
    hlast,      \* handle specification: the last call and its result
    hdamage,    \* handle specification: the descriptor blocks damaged on the device
    mdestination, \* device specification: the memory device that is written
    msource,    \* device specification: the memory device that is copied from
    mholder,    \* device specification: the caller holding the lock, 0 when free
    mlast,      \* device specification: the last call and its result
    pcall,      \* path specification: the last call and its arguments
    presult     \* path specification: what the last call returned

streamVars == <<wstream, wdevice, wwritten, wlast>>
buildVars == <<bvafs, bhandles, blog, bpayload, bphase, blast>>
readVars == <<rvafs, rhandle, rexpected, rcorrupt, rreads, rlast>>
cacheVars == <<ccache, crequests, clast>>
handleVars == <<hvafs, hdir, hfile, hlast, hdamage>>
deviceVars == <<mdestination, msource, mholder, mlast>>
pathVars == <<pcall, presult>>
vars == <<wstream, wdevice, wwritten, wlast,
          bvafs, bhandles, blog, bpayload, bphase, blast,
          rvafs, rhandle, rexpected, rcorrupt, rreads, rlast,
          ccache, crequests, clast,
          hvafs, hdir, hfile, hlast, hdamage,
          mdestination, msource, mholder, mlast,
          pcall, presult>>

\* the variables of a specification that is not running
StreamIdle ==
    wstream = <<>> /\ wdevice = <<>> /\ wwritten = <<>> /\ wlast = <<>>

BuildIdle ==
    /\ bvafs = <<>> /\ bhandles = <<>> /\ blog = <<>> /\ bpayload = <<>>
    /\ bphase = "idle" /\ blast = <<>>

ReadIdle ==
    /\ rvafs = <<>> /\ rhandle = <<>> /\ rexpected = <<>> /\ rcorrupt = {}
    /\ rreads = 0 /\ rlast = <<>>

CacheIdle == ccache = <<>> /\ crequests = <<>> /\ clast = <<>>

HandleIdle ==
    hvafs = <<>> /\ hdir = <<>> /\ hfile = <<>> /\ hlast = <<>> /\ hdamage = {}

PathIdle == pcall = <<>> /\ presult = <<>>

DeviceIdle ==
    mdestination = <<>> /\ msource = <<>> /\ mholder = 0 /\ mlast = <<>>

(***************************************************************************)
(* Stream specification: one write-mode stream on a memory device          *)
(***************************************************************************)
\* the payload pattern: cell i of the stream holds (i + seed) mod PatternMod
Pattern(seed, from, n) == [i \in 1..n |-> ((from + i - 1 + seed) % PatternMod) + 1]

StreamInit ==
    \E filter \in BOOLEAN, seed \in 0..(PatternMod - 1) :
        \E c \in {StreamCreate(CreateMemoryDevice(BlockSize), 0, BlockSize)} :
           /\ wstream = StreamSetFilter(c.stream, filter)
           /\ wdevice = c.dev
           /\ wwritten = <<>>
           /\ wlast = [op |-> "create", status |-> c.status, seed |-> seed,
                       finishes |-> 0, at |-> 0, fault |-> "none"]
           /\ BuildIdle /\ ReadIdle /\ CacheIdle /\ HandleIdle /\ DeviceIdle /\ PathIdle

DoStreamWrite ==
    \E n \in 1..MaxChunk :
        /\ wlast.finishes = 0
        /\ wlast.fault = "none"
        /\ Len(wwritten) + n <= MaxWritten
        /\ \E data \in {Pattern(wlast.seed, Len(wwritten), n)} :
           \E r \in {StreamWrite(wstream, wdevice, data)} :
              /\ wstream' = r.stream
              /\ wdevice' = r.dev
              /\ wwritten' = IF r.status = 0 THEN wwritten \o data ELSE wwritten
              /\ wlast' = [wlast EXCEPT !.op = "write", !.status = r.status]
              /\ UNCHANGED <<buildVars, readVars, cacheVars, handleVars, deviceVars, pathVars>>

DoStreamFinish ==
    /\ wlast.finishes = 0
    /\ wlast.fault = "none"
    /\ \E r \in {StreamFinish(wstream, wdevice)} :
          /\ wstream' = r.stream
          /\ wdevice' = r.dev
          /\ wwritten' = wwritten
          /\ wlast' = [wlast EXCEPT !.op = "finish", !.status = r.status,
                                    !.finishes = @ + 1, !.at = Len(wwritten)]
          /\ UNCHANGED <<buildVars, readVars, cacheVars, handleVars, deviceVars, pathVars>>

\* vafs_stream_write that fails in a flush under a fault; the stream is
\* not used after it
DoStreamWriteFault ==
    \E n \in 1..MaxChunk, fault \in FlushFaults \ {"none"} :
        /\ wlast.finishes = 0
        /\ wlast.fault = "none"
        /\ Len(wwritten) + n <= MaxWritten
        /\ \E data \in {Pattern(wlast.seed, Len(wwritten), n)} :
           \E r \in {StreamWriteUnder(wstream, wdevice, data, fault)} :
              /\ r.status # 0
              /\ wstream' = r.stream
              /\ wdevice' = r.dev
              /\ wwritten' = wwritten
              /\ wlast' = [wlast EXCEPT !.op = "write_fault", !.status = r.status,
                                        !.fault = fault]
              /\ UNCHANGED <<buildVars, readVars, cacheVars, handleVars, deviceVars, pathVars>>

\* vafs_stream_finish that fails in its flush under a fault
DoStreamFinishFault ==
    /\ wlast.finishes = 0
    /\ wlast.fault = "none"
    /\ wstream.BlockBufferOffset > 0
    /\ \E fault \in FlushFaults \ {"none"} :
       \E r \in {StreamFinishUnder(wstream, wdevice, fault)} :
          /\ r.status # 0
          /\ wstream' = r.stream
          /\ wdevice' = r.dev
          /\ wwritten' = wwritten
          /\ wlast' = [wlast EXCEPT !.op = "finish_fault", !.status = r.status,
                                    !.fault = fault, !.at = Len(wwritten)]
          /\ UNCHANGED <<buildVars, readVars, cacheVars, handleVars, deviceVars, pathVars>>

StreamNext ==
    DoStreamWrite \/ DoStreamFinish \/ DoStreamWriteFault \/ DoStreamFinishFault

StreamSpec == StreamInit /\ [][StreamNext]_vars

(***************************************************************************)
(* Stream specification: what was written, block by block                  *)
(***************************************************************************)
\* uncompressed cells of block i (from 0) of the written payload
WBlockRaw(i) ==
    Slice(wwritten, i * BlockSize, Min(BlockSize, Len(wwritten) - i * BlockSize))

\* the cells block i occupies on the device
WBlockEncoded(i) ==
    IF wstream.HasFilter THEN FilterEncode(WBlockRaw(i)).output ELSE WBlockRaw(i)

\* the device position at which block i starts
RECURSIVE WBlockStart(_)
WBlockStart(i) ==
    IF i = 0 THEN StreamHeaderSize
    ELSE WBlockStart(i - 1) + Len(WBlockEncoded(i - 1))

WFinished == wlast.op = "finish" /\ wlast.status = 0

\* C8: when a write-mode stream is finished, entry i of the written
\* block-index table has length_on_disk = the encoded length of block i,
\* offset = the position where block i's cells start and crc = the CRC of
\* block i's uncompressed cells, for every flushed block i, also past the
\* initial table capacity of 8.
C8_TableDescribesBlocks ==
    WFinished =>
        LET table == TableOnDevice(wdevice, wstream.DeviceOffset)
        IN /\ Len(table) = wstream.BlockHeaders.Count
           /\ \A i \in 1..Len(table) :
                 /\ table[i].LengthOnDisk = Len(WBlockEncoded(i - 1))
                 /\ table[i].Offset = WBlockStart(i - 1)
                 /\ table[i].Crc = crc_calculate(WBlockRaw(i - 1))

\* C9: streams are append-only except for one header patch: finish()
\* rewrites only the stream-header cells at the stream's start, leaves every
\* other cell written before unchanged and leaves the device position just
\* past the block-index table; a write or flush overwrites no cell written
\* earlier.
C9_AppendOnly ==
    [][/\ \A p \in 1..wdevice.Size :
             (wlast'.op = "write" \/ p > wstream.DeviceOffset + StreamHeaderSize)
                 => wdevice'.Buffer[p] = wdevice.Buffer[p]
       /\ wdevice'.Size >= wdevice.Size
       /\ (wlast'.op = "finish" /\ wlast'.status = 0) =>
             /\ wdevice'.Position =
                    wstream'.DeviceOffset + wstream'.Header.BlockHeadersOffset
                    + wstream'.Header.BlockHeadersCount * BlockHeaderSize
             /\ wdevice'.Position = wdevice'.Size
             /\ Slice(wdevice'.Buffer, wstream'.DeviceOffset, StreamHeaderSize)
                    = StreamHeaderCells(wstream'.Header)
             /\ wstream'.Header.BlockHeadersCount = wstream'.BlockHeaders.Count
      ]_vars

\* a finish that patched the header of a stream of several blocks
C9_Witness ==
    /\ WFinished
    /\ wstream.BlockHeaders.Count >= 3
    /\ wstream.Header.BlockHeadersOffset > StreamHeaderSize

(***************************************************************************)
(* Build specification: an image is built through the public calls,        *)
(* closed, and opened again from the bytes that close produced             *)
(***************************************************************************)
\* the names and symlink targets the calls are made with: "a" and "bb";
\* "/a" and "bb"
BuildNames == {<<97>>, <<98, 98>>}
BuildTargets == {<<Slash, 97>>, <<98, 98>>}

\* the paths vafs_file_open is called with: one or two names
BuildPaths ==
    {<<Slash>> \o n : n \in BuildNames}
        \cup {<<Slash>> \o n \o <<Slash>> \o m : n \in BuildNames, m \in BuildNames}

\* the directories of the tree, as node numbers
Directories(vafs) ==
    {n \in 1..Len(vafs.Nodes) : vafs.Nodes[n].Type = VA_FS_DESCRIPTOR_TYPE_DIRECTORY}

\* the cells the next write of n cells carries: each cell written to the
\* image is one more than the cell written before it
NextCells(n) == [i \in 1..n |-> bvafs.Overview.TotalSizeUncompressed + i]

\* the permissions the next create call is made with: every node of a tree
\* gets permissions of its own, from 0644 on
NextPermissions == {BasePermissions + Len(bvafs.Nodes)}

BuildInit ==
    \E filter \in BOOLEAN :
        /\ bvafs = VafsCreate(0, BlockSize, filter)
        /\ bhandles = <<>>
        /\ blog = <<>>
        /\ bpayload = <<>>
        /\ bphase = "write"
        /\ blast = [op |-> "create", status |-> 0, errno |-> "OK",
                     filter |-> filter, handle |-> 0]
        /\ StreamIdle /\ ReadIdle /\ CacheIdle /\ HandleIdle /\ DeviceIdle /\ PathIdle

Result(op, status, errno) ==
    [op |-> op, status |-> status, errno |-> errno, filter |-> blast.filter,
     handle |-> 0]

\* the record a successful create call leaves in the log
Logged(r, parent, permissions, target) ==
    IF r.status # 0 THEN blog
    ELSE Append(blog, [node |-> r.node, parent |-> parent,
                       Type |-> r.vafs.Nodes[r.node].Type,
                       Name |-> r.vafs.Nodes[r.node].Name,
                       Permissions |-> permissions, Target |-> target])

\* vafs_directory_create_directory on a handle of directory parent
BCreateDirectory ==
    /\ bphase = "write"
    /\ Len(bvafs.Nodes) < MaxNodes
    /\ \E parent \in Directories(bvafs), name \in BuildNames,
          permissions \in NextPermissions :
          \E r \in {DirectoryCreateDirectory(bvafs, parent, name, permissions)} :
             /\ bvafs' = r.vafs
             /\ blog' = Logged(r, parent, permissions, <<>>)
             /\ bpayload' = IF r.status = 0 THEN Append(bpayload, <<>>) ELSE bpayload
             /\ blast' = Result("create_directory", r.status, r.errno)
             /\ UNCHANGED <<bhandles, bphase>>
    /\ UNCHANGED <<streamVars, readVars, cacheVars, handleVars, deviceVars, pathVars>>

\* vafs_directory_create_file: the handle it returns is kept open
BCreateFile ==
    /\ bphase = "write"
    /\ Len(bvafs.Nodes) < MaxNodes
    /\ Len(bhandles) < MaxHandles
    /\ \E parent \in Directories(bvafs), name \in BuildNames,
          permissions \in NextPermissions :
          \E r \in {DirectoryCreateFile(bvafs, parent, name, permissions)} :
             /\ bvafs' = r.vafs
             /\ blog' = Logged(r, parent, permissions, <<>>)
             /\ bpayload' = IF r.status = 0 THEN Append(bpayload, <<>>) ELSE bpayload
             /\ bhandles' = IF r.status = 0
                                THEN Append(bhandles, FileCreateHandle(r.node))
                                ELSE bhandles
             /\ blast' = Result("create_file", r.status, r.errno)
             /\ UNCHANGED bphase
    /\ UNCHANGED <<streamVars, readVars, cacheVars, handleVars, deviceVars, pathVars>>

\* vafs_directory_create_symlink
BCreateSymlink ==
    /\ bphase = "write"
    /\ Len(bvafs.Nodes) < MaxNodes
    /\ \E parent \in Directories(bvafs), name \in BuildNames,
          target \in BuildTargets :
          \E r \in {DirectoryCreateSymlink(bvafs, parent, name, target)} :
             /\ bvafs' = r.vafs
             /\ blog' = Logged(r, parent, 0, target)
             /\ bpayload' = IF r.status = 0 THEN Append(bpayload, <<>>) ELSE bpayload
             /\ blast' = Result("create_symlink", r.status, r.errno)
             /\ UNCHANGED <<bhandles, bphase>>
    /\ UNCHANGED <<streamVars, readVars, cacheVars, handleVars, deviceVars, pathVars>>

\* vafs_file_open on the image being written
BFileOpen ==
    /\ bphase = "write"
    /\ Len(bhandles) < MaxHandles
    /\ \E path \in BuildPaths :
          \E r \in {FileOpen(bvafs, path, MaxResolveDepth)} :
             /\ bvafs' = r.vafs
             /\ bhandles' = IF r.status = 0
                                THEN Append(bhandles, FileCreateHandle(r.file))
                                ELSE bhandles
             /\ blast' = Result("file_open", r.status, r.errno)
             /\ UNCHANGED <<blog, bpayload, bphase>>
    /\ UNCHANGED <<streamVars, readVars, cacheVars, handleVars, deviceVars, pathVars>>

\* vafs_file_write through an open handle
BFileWrite ==
    /\ bphase = "write"
    /\ \E h \in 1..Len(bhandles), n \in 1..MaxChunk :
          /\ bvafs.Overview.TotalSizeUncompressed + n <= MaxData
          /\ \E r \in {FileWrite(bvafs, bhandles[h], NextCells(n))} :
                /\ bvafs' = r.vafs
                /\ bhandles' = [bhandles EXCEPT ![h] = r.handle]
                /\ bpayload' = IF r.status = 0
                                   THEN [bpayload EXCEPT ![bhandles[h].File - 1] =
                                                             @ \o NextCells(n)]
                                   ELSE bpayload
                /\ blast' = [Result("file_write", r.status, r.errno)
                                EXCEPT !.handle = h]
                /\ UNCHANGED <<blog, bphase>>
    /\ UNCHANGED <<streamVars, readVars, cacheVars, handleVars, deviceVars, pathVars>>

\* vafs_file_close
BFileClose ==
    /\ bphase = "write"
    /\ \E h \in 1..Len(bhandles) :
          /\ bvafs' = FileClose(bvafs, bhandles[h])
          /\ bhandles' = SubSeq(bhandles, 1, h - 1)
                             \o SubSeq(bhandles, h + 1, Len(bhandles))
          /\ blast' = [Result("file_close", 0, "OK") EXCEPT !.handle = h]
          /\ UNCHANGED <<blog, bpayload, bphase>>
    /\ UNCHANGED <<streamVars, readVars, cacheVars, handleVars, deviceVars, pathVars>>

\* vafs_close of the image being written, every handle closed before
BClose ==
    /\ bphase = "write"
    /\ bhandles = <<>>
    /\ \E r \in {VafsClose(bvafs)} :
          /\ bvafs' = r.vafs
          /\ bphase' = IF r.status = 0 THEN "closed" ELSE "failed"
          /\ blast' = Result("close", r.status, "OK")
          /\ UNCHANGED <<bhandles, blog, bpayload>>
    /\ UNCHANGED <<streamVars, readVars, cacheVars, handleVars, deviceVars, pathVars>>

\* vafs_open_memory on the bytes of the closed image, then vafs_feature_add
\* of the filter the image was written with
BOpen ==
    /\ bphase = "closed"
    /\ \E r \in {VafsOpenMemory(SubSeq(bvafs.ImageDevice.Buffer, 1,
                                      bvafs.ImageDevice.Size))} :
          /\ bvafs' = IF r.status = 0 THEN VafsFeatureAddFilter(r.vafs, blast.filter)
                                      ELSE bvafs
          /\ bphase' = IF r.status = 0 THEN "read" ELSE "unreadable"
          /\ blast' = Result("open", r.status, "OK")
          /\ UNCHANGED <<bhandles, blog, bpayload>>
    /\ UNCHANGED <<streamVars, readVars, cacheVars, handleVars, deviceVars, pathVars>>

BuildNext ==
    \/ BCreateDirectory \/ BCreateFile \/ BCreateSymlink
    \/ BFileOpen \/ BFileWrite \/ BFileClose
    \/ BClose \/ BOpen

BuildSpec == BuildInit /\ [][BuildNext]_vars

(***************************************************************************)
(* Build specification: the tree that was built and the tree read back     *)
(***************************************************************************)
\* the children created in a directory, in call order, with what was
\* written to each file
RECURSIVE ExpectedChildren(_)
ExpectedChildren(directory) ==
    LET created == SelectSeq(blog, LAMBDA e : e.parent = directory)
    IN [i \in 1..Len(created) |->
           [Type |-> created[i].Type,
            Name |-> created[i].Name,
            Permissions |-> created[i].Permissions,
            Target |-> created[i].Target,
            Payload |-> [status |-> 0, data |-> bpayload[created[i].node - 1]],
            Children |-> IF created[i].Type = VA_FS_DESCRIPTOR_TYPE_DIRECTORY
                             THEN ExpectedChildren(created[i].node)
                             ELSE <<>>]]

\* the payload of a file of a read-mode image: a handle on the file, a
\* seek to 0 and one read of the file's length
ReadPayload(vafs, file) ==
    LET length == vafs.Nodes[file].Descriptor.FileLength
        sk == FileSeek(vafs, FileCreateHandle(file), 0, SEEK_SET)
        r == FileRead(vafs, sk.handle, length)
    IN IF length = 0
           THEN [vafs |-> vafs, payload |-> [status |-> 0, data |-> <<>>]]
           ELSE [vafs |-> r.vafs, payload |-> [status |-> r.status, data |-> r.data]]

\* the tree below a directory of a read-mode image as the calls deliver
\* it: the entries in vafs_directory_read order, subdirectories descended
RECURSIVE ReadChildren(_, _)
RECURSIVE ReadEntries(_, _)
ReadEntries(vafs, entries) ==
    IF entries = <<>> THEN [vafs |-> vafs, tree |-> <<>>]
    ELSE
        LET n == vafs.Nodes[Head(entries)]
            isFile == n.Type = VA_FS_DESCRIPTOR_TYPE_FILE
            isDirectory == n.Type = VA_FS_DESCRIPTOR_TYPE_DIRECTORY
            p == IF isFile THEN ReadPayload(vafs, Head(entries))
                           ELSE [vafs |-> vafs,
                                 payload |-> [status |-> 0, data |-> <<>>]]
            c == IF isDirectory THEN ReadChildren(p.vafs, Head(entries))
                                ELSE [vafs |-> p.vafs, tree |-> <<>>]
            rest == ReadEntries(c.vafs, Tail(entries))
        IN [vafs |-> rest.vafs,
            tree |-> <<[Type |-> n.Type,
                        Name |-> n.Name,
                        Permissions |-> IF n.Type = VA_FS_DESCRIPTOR_TYPE_SYMLINK
                                            THEN 0 ELSE n.Descriptor.Permissions,
                        Target |-> IF n.Type = VA_FS_DESCRIPTOR_TYPE_SYMLINK
                                       THEN n.Target ELSE <<>>,
                        Payload |-> p.payload,
                        Children |-> c.tree]>> \o rest.tree]

ReadChildren(vafs, directory) ==
    LET f == GetFirstEntry(vafs, directory)
    IN ReadEntries(f.vafs, f.entries)

\* C1: for any tree built in write mode with create_directory, create_file,
\* create_symlink and file writes and then closed, opening the image again
\* in read mode yields the same tree: the same structure, names,
\* permissions, file payloads and symlink targets, every directory's
\* children in the order in which they were created.
C1_RoundTrip ==
    bphase = "read" =>
        ReadChildren(bvafs, bvafs.RootDirectory).tree = ExpectedChildren(1)

(***************************************************************************)
(* Build specification: the data stream while the image is written         *)
(***************************************************************************)
\* the uncompressed cells of the blocks that lie encoded in cells
RECURSIVE DecodeBlocks(_, _, _)
DecodeBlocks(cells, filter, blockSize) ==
    IF cells = <<>> THEN <<>>
    ELSE IF ~filter THEN cells
    ELSE LET n == FilterBlockSize + cells[1]
         IN FilterDecode(SubSeq(cells, 1, n), blockSize).output
                \o DecodeBlocks(SubSeq(cells, n + 1, Len(cells)), filter, blockSize)

\* the uncompressed byte space of a stream being written: the flushed
\* blocks on its device, then the block buffer up to its write offset
StreamBytes(stream, dev) ==
    DecodeBlocks(SubSeq(dev.Buffer, stream.DeviceOffset + StreamHeaderSize + 1,
                        dev.Size),
                 stream.HasFilter, stream.Header.BlockSize)
        \o SubSeq(stream.BlockBuffer, 1, stream.BlockBufferOffset)

Files(vafs) ==
    {n \in 1..Len(vafs.Nodes) : vafs.Nodes[n].Type = VA_FS_DESCRIPTOR_TYPE_FILE}

\* data_pos of a file in the uncompressed byte space of the data stream
DataPosition(vafs, file) ==
    vafs.Nodes[file].Descriptor.Data.Index * vafs.DataStream.Header.BlockSize
        + vafs.Nodes[file].Descriptor.Data.Offset

FileRange(vafs, file) ==
    {DataPosition(vafs, file) + k :
        k \in 1..vafs.Nodes[file].Descriptor.FileLength}

\* C3: after any sequence of file creations, file opens, writes through
\* any handle and handle closes on a write-mode image, every file's payload
\* occupies the contiguous range [data_pos, data_pos + file_length) of the
\* data stream's uncompressed byte space, the range holds exactly the bytes
\* written to that file, in order, and the ranges of two different files
\* never overlap.
C3_ContiguousPayload ==
    bphase = "write" =>
        LET bytes == StreamBytes(bvafs.DataStream, DataDevice(bvafs))
        IN /\ \A f \in Files(bvafs) :
                  LET length == bvafs.Nodes[f].Descriptor.FileLength
                  IN /\ length = Len(bpayload[f - 1])
                     /\ length > 0 =>
                            /\ DataPosition(bvafs, f) + length <= Len(bytes)
                            /\ SubSeq(bytes, DataPosition(bvafs, f) + 1,
                                      DataPosition(bvafs, f) + length)
                                   = bpayload[f - 1]
           /\ \A f, g \in Files(bvafs) :
                  f # g => FileRange(bvafs, f) \cap FileRange(bvafs, g) = {}

(***************************************************************************)
(* Build specification: the data-stream lock                               *)
(***************************************************************************)
Writers == {h \in 1..Len(bhandles) : bhandles[h].State = "Write"}

\* C4 as the specification states it: opening a file for write acquires
\* the data-stream lock, so while a handle is open the lock is held and no
\* second handle is open.
C4_LockHeldWhileOpen ==
    bphase = "write" =>
        /\ Len(bhandles) <= 1
        /\ bhandles # <<>> => DataDevice(bvafs).Locked

\* C4 as the code has it: the lock is taken by the first vafs_file_write
\* through a handle and released by the vafs_file_close of that handle.
\* Creating or opening a file never takes the lock and never fails with
\* EBUSY; the lock is held exactly while one handle is in write state; the
\* first write through a second handle fails with EBUSY and changes
\* nothing while another handle holds the lock, and succeeds when no
\* handle holds it.
C4_LockAtFirstWrite ==
    [][ /\ bphase' = "write" =>
            /\ Cardinality({h \in 1..Len(bhandles') :
                               bhandles'[h].State = "Write"}) <= 1
            /\ DataDevice(bvafs').Locked <=>
                   \E h \in 1..Len(bhandles') : bhandles'[h].State = "Write"
        /\ blast'.op \in {"create_file", "file_open"} =>
            /\ blast'.errno # "EBUSY"
            /\ DataDevice(bvafs').Locked = DataDevice(bvafs).Locked
        /\ (blast'.op = "file_write" /\ blast'.handle \notin Writers) =>
            IF Writers # {}
                THEN /\ blast'.status = -1 /\ blast'.errno = "EBUSY"
                     /\ bvafs' = bvafs /\ bhandles' = bhandles
                     /\ bpayload' = bpayload
                ELSE /\ blast'.status = 0
                     /\ bhandles'[blast'.handle].State = "Write"
        /\ (blast'.op = "file_write" /\ blast'.handle \in Writers) =>
            blast'.status = 0
        /\ blast'.op = "file_close" =>
            DataDevice(bvafs').Locked <=>
                (DataDevice(bvafs).Locked /\ blast'.handle \notin Writers)
      ]_vars

\* a second handle was refused the lock while the first one held it
C4_Witness ==
    /\ bphase = "write"
    /\ blast.op = "file_write" /\ blast.errno = "EBUSY"
    /\ Len(bhandles) = 2 /\ Writers # {}
    /\ bhandles[1].File # bhandles[2].File

(***************************************************************************)
(* Build specification: the image vafs_close leaves on the final device    *)
(***************************************************************************)
ImageCells == SubSeq(bvafs.ImageDevice.Buffer, 1, bvafs.ImageDevice.Size)

\* the stream header found at an offset of the final device
StreamHeaderAt(offset) ==
    StreamHeaderFromCells(SubSeq(ImageCells, offset + 1, offset + StreamHeaderSize))

\* the stream at [offset, end) of the final device is a finished stream:
\* its header carries the magic and names a block-index table that ends
\* where the stream ends, and its cells are those of the device it was
\* written on
FinishedStreamAt(offset, end, stream, dev) ==
    /\ offset + StreamHeaderSize <= end
    /\ end <= Len(ImageCells)
    /\ LET h == StreamHeaderAt(offset)
       IN /\ h.Magic = STREAM_MAGIC
          /\ h.BlockSize = stream.Header.BlockSize
          /\ h.BlockHeadersCount = stream.BlockHeaders.Count
          /\ h.BlockHeadersOffset >= StreamHeaderSize
          /\ offset + h.BlockHeadersOffset + h.BlockHeadersCount * BlockHeaderSize
                 = end
    /\ SubSeq(ImageCells, offset + 1, end) = SubSeq(dev.Buffer, 1, dev.Size)

\* the cell of the descriptor stream's uncompressed byte space that the
\* image header's root_pos names, read from the final device
RootListingCount(header) ==
    LET h == StreamHeaderAt(header.DescriptorBlockOffset)
        bytes == DecodeBlocks(
                     SubSeq(ImageCells,
                            header.DescriptorBlockOffset + StreamHeaderSize + 1,
                            header.DescriptorBlockOffset + h.BlockHeadersOffset),
                     bvafs.DescriptorStream.HasFilter, h.BlockSize)
        position == header.RootDescriptor.Index * h.BlockSize
                        + header.RootDescriptor.Offset
    IN IF position < Len(bytes) THEN bytes[position + 1] ELSE Uninit

\* C7: after a successful vafs_close of a write-mode image the final
\* device begins with a valid image header whose descr_off and data_off
\* each point at a stream header carrying the stream magic and whose
\* root_pos is the descriptor-stream position captured for the root
\* directory's listing; nothing reaches the final device before close, and
\* close copies the two streams there finished.
C7_Finalized ==
    /\ bphase = "write" => bvafs.ImageDevice.Size = 0
    /\ bphase = "closed" =>
        /\ Len(ImageCells) >= ImageHeaderSize
        /\ LET header == ImageHeaderFromCells(SubSeq(ImageCells, 1, ImageHeaderSize))
           IN /\ header.Magic = VA_FS_MAGIC
              /\ header.Version = VA_FS_VERSION
              /\ header.DescriptorBlockOffset >= ImageHeaderSize
              /\ FinishedStreamAt(header.DescriptorBlockOffset,
                                  header.DataBlockOffset,
                                  bvafs.DescriptorStream, bvafs.DescriptorDevice)
              /\ FinishedStreamAt(header.DataBlockOffset, Len(ImageCells),
                                  bvafs.DataStream, bvafs.DataDevice)
              /\ header.RootDescriptor
                     = bvafs.Nodes[bvafs.RootDirectory].Descriptor.Descriptor
              /\ RootListingCount(header)
                     = Len(SelectSeq(blog, LAMBDA e : e.parent = bvafs.RootDirectory))

\* an image was closed whose root listing does not open the descriptor
\* stream and whose data stream holds a payload
C7_Witness ==
    /\ bphase = "closed"
    /\ bvafs.Header.RootDescriptor.Offset > 0
    /\ bvafs.DataStream.BlockHeaders.Count >= 2

(***************************************************************************)
(* Cache specification: one block cache under get, set and block loads     *)
(***************************************************************************)
CacheIndexes == 0..MaxIndex

\* the content of block index
BlockCells(index) == Fill(BlockSize, index + 1)

\* the indexes a call dropped from the cache
Evicted(before, after) == (DOMAIN before.cache) \ (DOMAIN after.cache)

CacheInit ==
    /\ ccache = CacheCreate(STREAM_CACHE_SIZE)
    /\ crequests = [i \in CacheIndexes |-> 0]
    /\ clast = [op |-> "create", index |-> 0, status |-> 0, evicted |-> {}]
    /\ StreamIdle /\ BuildIdle /\ ReadIdle /\ HandleIdle /\ DeviceIdle /\ PathIdle

\* vafs_cache_get
DoCacheGet ==
    /\ \E index \in CacheIndexes :
          /\ crequests[index] < MaxRequests
          /\ \E r \in {CacheGet(ccache, index)} :
                /\ ccache' = r.cache
                /\ crequests' = [crequests EXCEPT ![index] = @ + 1]
                /\ clast' = [op |-> "get", index |-> index, status |-> r.status,
                             evicted |-> Evicted(ccache, r.cache)]
    /\ UNCHANGED <<streamVars, buildVars, readVars, handleVars, deviceVars, pathVars>>

\* vafs_cache_set
DoCacheSet ==
    /\ \E index \in CacheIndexes :
          \E r \in {CacheSet(ccache, index, BlockCells(index), BlockSize)} :
             /\ ccache' = r.cache
             /\ clast' = [op |-> "set", index |-> index, status |-> r.status,
                          evicted |-> Evicted(ccache, r.cache)]
             /\ UNCHANGED crequests
    /\ UNCHANGED <<streamVars, buildVars, readVars, handleVars, deviceVars, pathVars>>

\* the cache calls of __load_blockbuffer: vafs_cache_get, and on a miss
\* vafs_cache_set of the block read from the device
DoCacheLoad ==
    /\ \E index \in CacheIndexes :
          /\ crequests[index] < MaxRequests
          /\ LET g == CacheGet(ccache, index)
                 r == IF g.status = 0 THEN [cache |-> g.cache, status |-> 0]
                      ELSE CacheSet(g.cache, index, BlockCells(index), BlockSize)
             IN /\ ccache' = r.cache
                /\ crequests' = [crequests EXCEPT ![index] = @ + 1]
                /\ clast' = [op |-> "load", index |-> index, status |-> r.status,
                             evicted |-> Evicted(ccache, r.cache)]
    /\ UNCHANGED <<streamVars, buildVars, readVars, handleVars, deviceVars, pathVars>>

CacheNext == DoCacheGet \/ DoCacheSet \/ DoCacheLoad

CacheSpec == CacheInit /\ [][CacheNext]_vars

\* C10: after any sequence of block loads, gets and sets, a block index
\* requested exactly once is not in the cache; a set stores a block only
\* if its index has been requested at least twice; a set for an index
\* requested at most once returns success and leaves the cache unchanged.
C10_CacheAdmission ==
    [][ /\ \A i \in CacheIndexes :
               crequests'[i] = 1 => ~TableHas(ccache'.cache, i)
        /\ \A i \in CacheIndexes :
               (TableHas(ccache'.cache, i) /\ ~TableHas(ccache.cache, i))
                   => crequests'[i] >= 2
        /\ (clast'.op = "set" /\ crequests[clast'.index] <= 1)
               => (clast'.status = 0 /\ ccache' = ccache)
      ]_vars

\* a set for an index requested once was made while the cache held a block
C10_Witness ==
    /\ clast.op = "set" /\ crequests[clast.index] = 1
    /\ \E i \in CacheIndexes : TableHas(ccache.cache, i) /\ crequests[i] >= 2

\* the entry of a cache whose use count is below that of every other entry
StrictlyLeast(c, i) ==
    /\ TableHas(c.cache, i)
    /\ \A j \in (DOMAIN c.cache) \ {i} : c.cache[i].uses < c.cache[j].uses

AtCapacity(c) == Cardinality(DOMAIN c.cache) = c.max_blocks

\* the call stores a block: its set finds the index requested at least
\* twice and not in the cache (the get of a load counts as a request)
Stores(c, call) ==
    /\ ~TableHas(c.cache, call.index)
    /\ \/ call.op = "set" /\ HeatmapHits(c, call.index) >= 2
       \/ call.op = "load" /\ HeatmapHits(c, call.index) >= 1

\* C11 as stated: after any vafs_cache_set issued while the cache holds
\* capacity entries, the cache holds exactly capacity entries and the
\* entry that had the strictly smallest uses counter is no longer present.
C11_EvictionOnAnySet ==
    [][ (clast'.op = "set" /\ AtCapacity(ccache))
            => /\ AtCapacity(ccache')
               /\ \A i \in CacheIndexes :
                      StrictlyLeast(ccache, i) => ~TableHas(ccache'.cache, i)
      ]_vars

\* C11 amended: a vafs_cache_set that stores a block while the cache holds
\* capacity entries leaves exactly capacity entries, the new block among
\* them with a use count of 1, and drops exactly one entry, which is the
\* one of the strictly smallest use count where there is one; a set that
\* stores nothing (index requested at most once, or already cached)
\* leaves the cached blocks as they were.
C11_EvictionOnStore ==
    [][ /\ (clast'.op \in {"set", "load"} /\ AtCapacity(ccache)
                /\ Stores(ccache, clast'))
            => /\ AtCapacity(ccache')
               /\ TableHas(ccache'.cache, clast'.index)
               /\ ccache'.cache[clast'.index].uses = 1
               /\ Cardinality(clast'.evicted) = 1
               /\ \A i \in CacheIndexes :
                      StrictlyLeast(ccache, i) => clast'.evicted = {i}
               /\ \A i \in (DOMAIN ccache.cache) \ clast'.evicted :
                      ccache'.cache[i] = ccache.cache[i]
        /\ (clast'.op = "set" /\ ~Stores(ccache, clast'))
            => ccache'.cache = ccache.cache
      ]_vars

\* a set at capacity stored a block and dropped the entry that had the
\* strictly smallest use count, while the entry that stayed had been used
\* more than once
C11_Witness ==
    /\ clast.op = "set" /\ clast.status = 0
    /\ Cardinality(clast.evicted) = 1
    /\ AtCapacity(ccache)
    /\ TableHas(ccache.cache, clast.index)
    /\ \E j \in (DOMAIN ccache.cache) \ {clast.index} : ccache.cache[j].uses > 1

(***************************************************************************)
(* Read specification: an image opened for reading                         *)
(***************************************************************************)
\* the tree of the image: /a/b and /dd regular files, /c a symlink to /a
NameA == <<97>>
NameB == <<98>>
NameC == <<99>>
NameDD == <<100, 100>>
PathAB == <<Slash, 97, Slash, 98>>
PathCB == <<Slash, 99, Slash, 98>>
PathDD == <<Slash, 100, 100>>
PathA == <<Slash, 97>>
ReadPaths == {PathAB, PathCB, PathDD, PathA}
PathRoot == <<Slash>>
StatPaths == ReadPaths \cup {PathRoot}

\* vafs_directory_create_file, one vafs_file_write of the payload and
\* vafs_file_close
WriteFile(vafs, directory, name, payload) ==
    LET Written(w) == FileClose(w.vafs, w.handle)
        Created(c) == Written(FileWrite(c.vafs, FileCreateHandle(c.node), payload))
    IN Created(DirectoryCreateFile(vafs, directory, name, BasePermissions))

\* the image: the tree built in write mode with b of length1 and dd of
\* length2 cells, closed, and its bytes opened with vafs_open_memory
ImageScript(length1, length2) ==
    << [op |-> "directory", parent |-> <<>>, name |-> NameA, target |-> <<>>,
        payload |-> <<>>],
       [op |-> "file", parent |-> NameA, name |-> NameB, target |-> <<>>,
        payload |-> [i \in 1..length1 |-> i]],
       [op |-> "symlink", parent |-> <<>>, name |-> NameC, target |-> PathA,
        payload |-> <<>>],
       [op |-> "file", parent |-> <<>>, name |-> NameDD, target |-> <<>>,
        payload |-> [i \in 1..length2 |-> length1 + i]] >>
\* the directory a call of the script names: the root, or its entry
ScriptDirectory(vafs, parent) ==
    IF parent = <<>> THEN vafs.RootDirectory
    ELSE EntryNamed(vafs.Nodes, vafs.Nodes[vafs.RootDirectory].Entries, parent)
\* one call of the script on the image being written
ScriptCall(vafs, call) ==
    CASE call.op = "directory" ->
             DirectoryCreateDirectory(vafs, ScriptDirectory(vafs, call.parent),
                                      call.name, RootStatPermissions).vafs
      [] call.op = "symlink" ->
             DirectoryCreateSymlink(vafs, ScriptDirectory(vafs, call.parent),
                                    call.name, call.target).vafs
      [] call.op = "file" ->
             WriteFile(vafs, ScriptDirectory(vafs, call.parent), call.name,
                       call.payload)
RECURSIVE RunScript(_, _)
RunScript(vafs, script) ==
    IF script = <<>> THEN vafs
    ELSE RunScript(ScriptCall(vafs, Head(script)), Tail(script))
\* the bytes of a closed image
ImageBytes(vafs) == SubSeq(vafs.ImageDevice.Buffer, 1, vafs.ImageDevice.Size)
\* the image: the script run in write mode, the image closed, and its
\* bytes opened with vafs_open_memory
ReadImage(length1, length2, filter) ==
    VafsFeatureAddFilter(
        VafsOpenMemory(ImageBytes(VafsClose(
            RunScript(VafsCreate(0, BlockSize, filter),
                      ImageScript(length1, length2))).vafs)).vafs,
        filter)

Called(op, path, status, errno) ==
    [op |-> op, path |-> path, status |-> status, errno |-> errno,
     name |-> <<>>, position |-> 0, size |-> 0, data |-> <<>>, stat |-> <<>>]

ReadInit ==
    /\ \E length1 \in 1..MaxLength, length2 \in 1..MaxLength, filter \in BOOLEAN :
          /\ rvafs = ReadImage(length1, length2, filter)
          /\ rexpected = (NameB :> [i \in 1..length1 |-> i])
                           @@ (NameDD :> [i \in 1..length2 |-> length1 + i])
    /\ rhandle = <<>>
    /\ rcorrupt = {}
    /\ rreads = 0
    /\ rlast = Called("open", <<>>, 0, "OK")
    /\ StreamIdle /\ BuildIdle /\ CacheIdle /\ HandleIdle /\ DeviceIdle /\ PathIdle

\* vafs_file_open; the handle replaces the one held
RFileOpen ==
    /\ \E path \in ReadPaths :
          \E r \in {FileOpen(rvafs, path, MaxResolveDepth)} :
             /\ rvafs' = r.vafs
             /\ rhandle' = IF r.status = 0 THEN FileCreateHandle(r.file) ELSE rhandle
             /\ rlast' = [Called("file_open", path, r.status, r.errno) EXCEPT
                             !.name = IF r.status = 0 THEN r.vafs.Nodes[r.file].Name
                                                      ELSE <<>>]
    /\ UNCHANGED <<rexpected, rcorrupt, rreads>>
    /\ UNCHANGED <<streamVars, buildVars, cacheVars, handleVars, deviceVars, pathVars>>

\* vafs_path_stat
RPathStat ==
    /\ \E path \in StatPaths :
          \E r \in {PathStat(rvafs, path, MaxResolveDepth)} :
             /\ rvafs' = r.vafs
             /\ rlast' = [Called("path_stat", path, r.status, r.errno) EXCEPT
                             !.stat = IF r.status = 0 THEN r.stat ELSE <<>>]
    /\ UNCHANGED <<rhandle, rexpected, rcorrupt, rreads>>
    /\ UNCHANGED <<streamVars, buildVars, cacheVars, handleVars, deviceVars, pathVars>>

\* vafs_file_seek; the record keeps the position before the call in
\* position, the offset in size and the whence in data
RFileSeek ==
    /\ rhandle # <<>>
    /\ \E offset \in -1..MaxLength, whence \in {SEEK_SET, SEEK_CUR, SEEK_END} :
          \E r \in {FileSeek(rvafs, rhandle, offset, whence)} :
             /\ rhandle' = r.handle
             /\ rlast' = [Called("file_seek", <<>>, r.status, r.errno) EXCEPT
                             !.name = rvafs.Nodes[rhandle.File].Name,
                             !.position = rhandle.Position,
                             !.size = offset,
                             !.data = <<whence>>]
    /\ UNCHANGED <<rvafs, rexpected, rcorrupt, rreads>>
    /\ UNCHANGED <<streamVars, buildVars, cacheVars, handleVars, deviceVars, pathVars>>

\* vafs_file_read of size cells at the handle's position
RFileRead ==
    /\ rhandle # <<>>
    /\ rreads < MaxReads
    /\ \E size \in 1..MaxLength + 1 :
          \E r \in {FileRead(rvafs, rhandle, size)} :
             /\ rvafs' = r.vafs
             /\ rlast' = [Called("file_read", <<>>, r.status, r.errno) EXCEPT
                             !.name = rvafs.Nodes[rhandle.File].Name,
                             !.position = rhandle.Position,
                             !.size = size,
                             !.data = r.data]
    /\ rreads' = rreads + 1
    /\ UNCHANGED <<rhandle, rexpected, rcorrupt>>
    /\ UNCHANGED <<streamVars, buildVars, cacheVars, handleVars, deviceVars, pathVars>>

\* the device under the image changes the last cell of one data block
RCorrupt ==
    /\ rcorrupt = {}
    /\ \E block \in 0..rvafs.DataStream.BlockHeaders.Count - 1 :
          LET header == GetBlockHeader(rvafs.DataStream, block)
              cell == rvafs.DataStream.DeviceOffset + header.Offset
                          + header.LengthOnDisk
          IN /\ rvafs' = [rvafs EXCEPT !.ImageDevice.Buffer[cell] = @ + 1]
             /\ rcorrupt' = {block}
             /\ rlast' = Called("corrupt", <<>>, 0, "OK")
    /\ UNCHANGED <<rhandle, rexpected, rreads>>
    /\ UNCHANGED <<streamVars, buildVars, cacheVars, handleVars, deviceVars, pathVars>>

ReadNext == RFileOpen \/ RPathStat \/ RFileSeek \/ RFileRead \/ RCorrupt

ReadSpec == ReadInit /\ [][ReadNext]_vars

(***************************************************************************)
(* Read specification: what the reads deliver                              *)
(***************************************************************************)
\* the uncompressed byte space of the data stream as it was written: b's
\* payload, then dd's
ExpectedStream == rexpected[NameB] \o rexpected[NameDD]

\* data_pos of the file a read was made on
ExpectedPosition(name) == IF name = NameB THEN 0 ELSE Len(rexpected[NameB])

\* the blocks that hold the cells [data_pos + position, + size) of a read
TouchedBlocks(r) ==
    {(ExpectedPosition(r.name) + r.position + k) \div BlockSize :
        k \in 0..r.size - 1}

\* the read asked for cells of the file only
WithinFile(r) == r.position + r.size <= Len(rexpected[r.name])

\* C2: in read mode, for every file of length L > 0, seeking the handle to
\* 0 and reading L bytes succeeds, reports exactly L bytes read and
\* delivers exactly the file's payload, wherever the file lies in the data
\* stream, also when its last byte is the last byte of the final block;
\* and no read delivers bytes beyond data_pos + file_length.
C2_FullRangeRead ==
    (rlast.op = "file_read" /\ rcorrupt = {}) =>
        /\ (rlast.position = 0 /\ rlast.size = Len(rexpected[rlast.name])) =>
               /\ rlast.status = rlast.size
               /\ rlast.data = rexpected[rlast.name]
        /\ Len(rlast.data) <= Len(rexpected[rlast.name]) - rlast.position

\* C5: a read never succeeds with bytes of a block whose decoded content
\* does not match the CRC of its block-index entry: the call that needs
\* the block fails with an integrity error (EIO), and the failure is
\* confined to that call: with a block damaged, a read that touches only
\* undamaged blocks succeeds and delivers the right bytes.
C5_CorruptionConfined ==
    (rlast.op = "file_read" /\ WithinFile(rlast)) =>
        /\ rlast.status = 0 =>
               rlast.data = SubSeq(ExpectedStream,
                                   ExpectedPosition(rlast.name) + rlast.position + 1,
                                   ExpectedPosition(rlast.name) + rlast.position
                                       + rlast.size)
        /\ (rlast.status # 0 /\ TouchedBlocks(rlast) \cap rcorrupt # {}) =>
               rlast.errno = "EIO"
        /\ (rcorrupt # {} /\ TouchedBlocks(rlast) \cap rcorrupt = {}) =>
               rlast.status = 0

\* C6: with /a/b a regular file and /c a symlink to /a, vafs_file_open of
\* "/c/b" and vafs_path_stat of "/c/b" return the same file as for "/a/b".
C6_AbsoluteSymlink ==
    /\ (rlast.op = "file_open" /\ rlast.path = PathCB) =>
           LET direct == FileOpen(rvafs, PathAB, MaxResolveDepth)
           IN /\ rlast.status = 0
              /\ direct.status = 0
              /\ rlast.name = direct.vafs.Nodes[direct.file].Name
              /\ rhandle.File = direct.file
    /\ (rlast.op = "path_stat" /\ rlast.path = PathCB) =>
           LET direct == PathStat(rvafs, PathAB, MaxResolveDepth)
           IN /\ rlast.status = 0
              /\ direct.status = 0
              /\ rlast.stat = direct.stat

(***************************************************************************)
(* Handle specification: the calls made through a directory handle and a   *)
(* file handle, on an image being written and on an image opened to read   *)
(***************************************************************************)
\* a root that holds one file of one cell
SingleFileScript ==
    << [op |-> "file", parent |-> <<>>, name |-> NameA, target |-> <<>>,
        payload |-> <<1>>] >>

HandleScripts == {ImageScript(1, 1), SingleFileScript}

LookupNames == {NameA, NameC, NameDD}

CreateNames == {NameA, NameB}

\* the image of a script: written, closed, and its bytes opened to read
OpenedImage(script, filter) ==
    VafsFeatureAddFilter(
        VafsOpenMemory(ImageBytes(VafsClose(
            RunScript(VafsCreate(0, BlockSize, filter), script)).vafs)).vafs,
        filter)

Handled(op, name, status, errno) ==
    [op |-> op, name |-> name, status |-> status, errno |-> errno,
     calls |-> hlast.calls + 1, entry |-> <<>>]

HandleInit ==
    /\ \E filter \in BOOLEAN :
          \/ hvafs = VafsCreate(0, BlockSize, filter)
          \/ \E script \in HandleScripts : hvafs = OpenedImage(script, filter)
    /\ hdir = DirectoryCreateHandle(hvafs.RootDirectory)
    /\ hfile = <<>>
    /\ hlast = [op |-> "open", name |-> <<>>, status |-> 0, errno |-> "OK",
                calls |-> 0, entry |-> <<>>]
    /\ hdamage = {}
    /\ StreamIdle /\ BuildIdle /\ ReadIdle /\ CacheIdle /\ DeviceIdle /\ PathIdle

\* vafs_directory_open of the root path: a new handle on the root
HOpenRoot ==
    /\ hlast.calls < MaxCalls
    /\ hdir' = DirectoryCreateHandle(hvafs.RootDirectory)
    /\ hlast' = Handled("open_root", <<>>, 0, "OK")
    /\ UNCHANGED <<hvafs, hfile>>
    /\ UNCHANGED <<streamVars, buildVars, readVars, cacheVars, deviceVars, pathVars, hdamage>>

\* vafs_directory_open_directory: the new handle replaces the one held
HOpenDirectory ==
    /\ hlast.calls < MaxCalls
    /\ \E name \in LookupNames :
          \E r \in {DirectoryOpenDirectory(hvafs, hdir.Directory, name)} :
             /\ hvafs' = r.vafs
             /\ hdir' = IF r.status = 0 THEN DirectoryCreateHandle(r.node) ELSE hdir
             /\ hlast' = Handled("open_directory", name, r.status, r.errno)
    /\ UNCHANGED hfile
    /\ UNCHANGED <<streamVars, buildVars, readVars, cacheVars, deviceVars, pathVars, hdamage>>

\* vafs_directory_open_file
HOpenFile ==
    /\ hlast.calls < MaxCalls
    /\ hfile = <<>>
    /\ \E name \in LookupNames :
          \E r \in {DirectoryOpenFile(hvafs, hdir.Directory, name)} :
             /\ hvafs' = r.vafs
             /\ hfile' = IF r.status = 0 THEN FileCreateHandle(r.node) ELSE hfile
             /\ hlast' = Handled("open_file", name, r.status, r.errno)
    /\ UNCHANGED hdir
    /\ UNCHANGED <<streamVars, buildVars, readVars, cacheVars, deviceVars, pathVars, hdamage>>

\* vafs_directory_read_symlink
HReadSymlink ==
    /\ hlast.calls < MaxCalls
    /\ \E name \in LookupNames :
          \E r \in {DirectoryReadSymlink(hvafs, hdir.Directory, name)} :
             /\ hvafs' = r.vafs
             /\ hlast' = [Handled("read_symlink", name, r.status, r.errno) EXCEPT
                             !.entry = IF r.status = 0 THEN r.vafs.Nodes[r.node].Target
                                                       ELSE <<>>]
    /\ UNCHANGED <<hdir, hfile>>
    /\ UNCHANGED <<streamVars, buildVars, readVars, cacheVars, deviceVars, pathVars, hdamage>>

\* vafs_directory_create_directory: the new handle replaces the one held
HCreateDirectory ==
    /\ hlast.calls < MaxCalls
    /\ Len(hvafs.Nodes) < MaxNodes
    /\ \E name \in CreateNames :
          \E r \in {DirectoryCreateDirectory(hvafs, hdir.Directory, name,
                                             BasePermissions)} :
             /\ hvafs' = r.vafs
             /\ hdir' = IF r.status = 0 THEN DirectoryCreateHandle(r.node) ELSE hdir
             /\ hlast' = Handled("create_directory", name, r.status, r.errno)
    /\ UNCHANGED hfile
    /\ UNCHANGED <<streamVars, buildVars, readVars, cacheVars, deviceVars, pathVars, hdamage>>

\* vafs_directory_create_file
HCreateFile ==
    /\ hlast.calls < MaxCalls
    /\ Len(hvafs.Nodes) < MaxNodes
    /\ hfile = <<>>
    /\ \E name \in CreateNames :
          \E r \in {DirectoryCreateFile(hvafs, hdir.Directory, name,
                                        BasePermissions)} :
             /\ hvafs' = r.vafs
             /\ hfile' = IF r.status = 0 THEN FileCreateHandle(r.node) ELSE hfile
             /\ hlast' = Handled("create_file", name, r.status, r.errno)
    /\ UNCHANGED hdir
    /\ UNCHANGED <<streamVars, buildVars, readVars, cacheVars, deviceVars, pathVars, hdamage>>

\* vafs_directory_create_symlink
HCreateSymlink ==
    /\ hlast.calls < MaxCalls
    /\ Len(hvafs.Nodes) < MaxNodes
    /\ \E name \in CreateNames :
          \E r \in {DirectoryCreateSymlink(hvafs, hdir.Directory, name, PathA)} :
             /\ hvafs' = r.vafs
             /\ hlast' = Handled("create_symlink", name, r.status, r.errno)
    /\ UNCHANGED <<hdir, hfile>>
    /\ UNCHANGED <<streamVars, buildVars, readVars, cacheVars, deviceVars, pathVars, hdamage>>

\* vafs_directory_read
HRead ==
    /\ hlast.calls < MaxCalls
    /\ \E r \in {DirectoryRead(hvafs, hdir)} :
          /\ hvafs' = r.vafs
          /\ hdir' = r.handle
          /\ hlast' = [Handled("read", <<>>, r.status, r.errno) EXCEPT
                          !.entry = IF r.status = 0 THEN <<r.name, r.type>>
                                                    ELSE <<>>]
    /\ UNCHANGED hfile
    /\ UNCHANGED <<streamVars, buildVars, readVars, cacheVars, deviceVars, pathVars, hdamage>>

\* vafs_file_read
HFileRead ==
    /\ hlast.calls < MaxCalls
    /\ hfile # <<>>
    /\ \E size \in 1..MaxLength :
          \E r \in {FileRead(hvafs, hfile, size)} :
             /\ hvafs' = r.vafs
             /\ hlast' = Handled("file_read", <<>>, r.status, r.errno)
    /\ UNCHANGED <<hdir, hfile>>
    /\ UNCHANGED <<streamVars, buildVars, readVars, cacheVars, deviceVars, pathVars, hdamage>>

\* vafs_file_seek
HFileSeek ==
    /\ hlast.calls < MaxCalls
    /\ hfile # <<>>
    /\ \E offset \in 0..1, whence \in {SEEK_SET, SEEK_END} :
          \E r \in {FileSeek(hvafs, hfile, offset, whence)} :
             /\ hfile' = r.handle
             /\ hlast' = Handled("file_seek", <<>>, r.status, r.errno)
    /\ UNCHANGED <<hvafs, hdir>>
    /\ UNCHANGED <<streamVars, buildVars, readVars, cacheVars, deviceVars, pathVars, hdamage>>

\* vafs_file_write
HFileWrite ==
    /\ hlast.calls < MaxCalls
    /\ hfile # <<>>
    /\ \E n \in 1..MaxLength :
          /\ hvafs.Overview.TotalSizeUncompressed + n <= MaxData
          /\ \E r \in {FileWrite(hvafs, hfile, Fill(n, 1))} :
                /\ hvafs' = r.vafs
                /\ hfile' = r.handle
                /\ hlast' = Handled("file_write", <<>>, r.status, r.errno)
    /\ UNCHANGED hdir
    /\ UNCHANGED <<streamVars, buildVars, readVars, cacheVars, deviceVars, pathVars, hdamage>>

\* vafs_file_close
HFileClose ==
    /\ hlast.calls < MaxCalls
    /\ hfile # <<>>
    /\ hvafs' = FileClose(hvafs, hfile)
    /\ hfile' = <<>>
    /\ hlast' = Handled("file_close", <<>>, 0, "OK")
    /\ UNCHANGED hdir
    /\ UNCHANGED <<streamVars, buildVars, readVars, cacheVars, deviceVars, pathVars, hdamage>>

\* the device under a read-mode image changes the last cell of one
\* descriptor block
HDamage ==
    /\ hlast.calls < MaxCalls
    /\ hvafs.Mode = "Read"
    /\ hdamage = {}
    /\ \E block \in 0..hvafs.DescriptorStream.BlockHeaders.Count - 1 :
          LET header == GetBlockHeader(hvafs.DescriptorStream, block)
              cell == hvafs.DescriptorStream.DeviceOffset + header.Offset
                          + header.LengthOnDisk
          IN /\ hvafs' = [hvafs EXCEPT !.ImageDevice.Buffer[cell] = @ + 1]
             /\ hdamage' = {block}
             /\ hlast' = Handled("damage", <<>>, 0, "OK")
    /\ UNCHANGED <<hdir, hfile>>
    /\ UNCHANGED <<streamVars, buildVars, readVars, cacheVars, deviceVars, pathVars>>

\* the device delivers the cell as it was written again
HRepair ==
    /\ hlast.calls < MaxCalls
    /\ \E block \in hdamage :
          LET header == GetBlockHeader(hvafs.DescriptorStream, block)
              cell == hvafs.DescriptorStream.DeviceOffset + header.Offset
                          + header.LengthOnDisk
          IN /\ hvafs' = [hvafs EXCEPT !.ImageDevice.Buffer[cell] = @ - 1]
             /\ hdamage' = {}
             /\ hlast' = Handled("repair", <<>>, 0, "OK")
    /\ UNCHANGED <<hdir, hfile>>
    /\ UNCHANGED <<streamVars, buildVars, readVars, cacheVars, deviceVars, pathVars>>

HandleNext ==
    \/ HDamage \/ HRepair
    \/ HOpenRoot \/ HOpenDirectory \/ HOpenFile \/ HReadSymlink
    \/ HCreateDirectory \/ HCreateFile \/ HCreateSymlink
    \/ HRead \/ HFileRead \/ HFileSeek \/ HFileWrite \/ HFileClose

HandleSpec == HandleInit /\ [][HandleNext]_vars

\* the calls that the mode of an image does not allow
ModeViolations(mode) ==
    IF mode = "Read"
        THEN {"create_directory", "create_file", "create_symlink", "file_write"}
        ELSE {"open_directory", "open_file", "read_symlink", "file_read",
              "file_seek"}

\* C12: the image mode is fixed at open/create time and every operation
\* that violates it fails with EACCES and changes no state: on a read-mode
\* image create_directory, create_file, create_symlink and file write; on
\* a write-mode image open_subdirectory, open_file, read_symlink, file
\* read and file seek.
C12_ModeViolationFails ==
    [][ /\ hvafs'.Mode = hvafs.Mode
        /\ (hlast'.calls # hlast.calls /\ hlast'.op \in ModeViolations(hvafs.Mode))
               => /\ hlast'.status = -1
                  /\ hlast'.errno = "EACCES"
                  /\ hvafs' = hvafs /\ hdir' = hdir /\ hfile' = hfile
      ]_vars

\* the part of C12 that holds: a call that the mode does not allow fails
\* and changes no state, the calls on a directory handle with EACCES, the
\* calls on a file handle with ENOTSUP
C12_ModeViolationRefused ==
    [][ /\ hvafs'.Mode = hvafs.Mode
        /\ (hlast'.calls # hlast.calls /\ hlast'.op \in ModeViolations(hvafs.Mode))
               => /\ hlast'.status = -1
                  /\ hlast'.errno =
                         IF hlast'.op \in {"file_read", "file_seek", "file_write"}
                             THEN "ENOTSUP" ELSE "EACCES"
                  /\ hvafs' = hvafs /\ hdir' = hdir /\ hfile' = hfile
      ]_vars

CreateCalls == {"create_directory", "create_file", "create_symlink"}

\* the names of the children of a directory, in list order
ChildNames(vafs, directory) ==
    [i \in 1..Len(vafs.Nodes[directory].Entries) |->
        vafs.Nodes[vafs.Nodes[directory].Entries[i]].Name]

\* no directory of the tree has two children of one name
NoDuplicateChildren(vafs) ==
    \A d \in 1..Len(vafs.Nodes) :
        vafs.Nodes[d].Type = VA_FS_DESCRIPTOR_TYPE_DIRECTORY =>
            \A i, j \in 1..Len(vafs.Nodes[d].Entries) :
                ChildNames(vafs, d)[i] = ChildNames(vafs, d)[j] => i = j

\* C13: create_directory, create_file and create_symlink on a name that
\* already exists among the directory's children, whatever its type, fail
\* with EEXIST and leave the child list and the Overview counts unchanged
\* (a new name is created at the head of the list); so after any sequence
\* of create operations no directory has two children of one name.
C13_DuplicateRejected ==
    [][ hvafs.Mode = "Write" =>
          /\ NoDuplicateChildren(hvafs')
          /\ (hlast'.calls # hlast.calls /\ hlast'.op \in CreateCalls) =>
                IF \E i \in 1..Len(ChildNames(hvafs, hdir.Directory)) :
                       ChildNames(hvafs, hdir.Directory)[i] = hlast'.name
                    THEN /\ hlast'.status = -1
                         /\ hlast'.errno = "EEXIST"
                         /\ hvafs'.Nodes = hvafs.Nodes
                         /\ hvafs'.Overview = hvafs.Overview
                    ELSE /\ hlast'.status = 0
                         /\ ChildNames(hvafs', hdir.Directory) =
                                <<hlast'.name>> \o ChildNames(hvafs, hdir.Directory)
      ]_vars

\* a create_symlink was refused on the name of a file of the directory
C13_Witness ==
    /\ hvafs.Mode = "Write"
    /\ hlast.op = "create_symlink" /\ hlast.errno = "EEXIST"
    /\ \E e \in 1..Len(hvafs.Nodes) :
          /\ hvafs.Nodes[e].Type = VA_FS_DESCRIPTOR_TYPE_FILE
          /\ hvafs.Nodes[e].Name = hlast.name
          /\ \E i \in 1..Len(hvafs.Nodes[hdir.Directory].Entries) :
                 hvafs.Nodes[hdir.Directory].Entries[i] = e

\* the children of a directory as <<name, type>> pairs, in list order
Children(vafs, directory) ==
    [i \in 1..Len(vafs.Nodes[directory].Entries) |->
        <<vafs.Nodes[vafs.Nodes[directory].Entries[i]].Name,
          vafs.Nodes[vafs.Nodes[directory].Entries[i]].Type>>]

\* the image opened to read is the one of SingleFileScript
IsSingleFileImage(vafs) == vafs.Overview.Counts.Directories = 0

\* the children a directory has: in write mode the ones created, in read
\* mode the ones the script of the image wrote to it
ChildrenWritten(vafs, directory) ==
    IF vafs.Mode = "Write"
        THEN {Children(vafs, directory)[i] :
                 i \in 1..Len(vafs.Nodes[directory].Entries)}
    ELSE IF IsSingleFileImage(vafs)
        THEN {<<NameA, VA_FS_DESCRIPTOR_TYPE_FILE>>}
    ELSE IF directory = vafs.RootDirectory
        THEN {<<NameA, VA_FS_DESCRIPTOR_TYPE_DIRECTORY>>,
              <<NameC, VA_FS_DESCRIPTOR_TYPE_SYMLINK>>,
              <<NameDD, VA_FS_DESCRIPTOR_TYPE_FILE>>}
    ELSE {<<NameB, VA_FS_DESCRIPTOR_TYPE_FILE>>}

\* one vafs_directory_read step: with n children, a call at an index below
\* n succeeds, returns the child at that index of a list that holds each
\* child once, and advances the index; a call at index n or above fails
\* with ENOENT and leaves the handle as it was
ReadEntryStep ==
    (hlast'.calls # hlast.calls /\ hlast'.op = "read") =>
        IF hdir.Index < Cardinality(ChildrenWritten(hvafs, hdir.Directory))
            THEN /\ hlast'.status = 0
                 /\ hdir' = [hdir EXCEPT !.Index = @ + 1]
                 /\ Len(Children(hvafs', hdir.Directory))
                        = Cardinality(ChildrenWritten(hvafs, hdir.Directory))
                 /\ {Children(hvafs', hdir.Directory)[i] :
                        i \in 1..Len(Children(hvafs', hdir.Directory))}
                        = ChildrenWritten(hvafs, hdir.Directory)
                 /\ hlast'.entry = Children(hvafs', hdir.Directory)[hdir.Index + 1]
            ELSE /\ hlast'.status = -1
                 /\ hlast'.errno = "ENOENT"
                 /\ hdir' = hdir

\* C14: on a directory with n children that is not modified in between, n
\* successive read_entry calls on one handle succeed and return the name
\* and type of each child exactly once; every further call fails with
\* ENOENT and does not advance the handle's iteration index.
C14_ReadEntry == [][ReadEntryStep]_vars

\* no directory that is still to be loaded has a child linked
NotHalfPopulated(vafs) ==
    \A d \in 1..Len(vafs.Nodes) :
        (/\ vafs.Nodes[d].Type = VA_FS_DESCRIPTOR_TYPE_DIRECTORY
         /\ vafs.Nodes[d].State = "Open") => vafs.Nodes[d].Entries = <<>>

\* the part of C14 that holds: the same on every image but the one whose
\* root listing ends with the last cell of a descriptor block, as long as
\* no load has failed on a damaged block
C14_ReadEntryOffBoundary ==
    [][(\/ hvafs.Mode = "Write"
        \/ /\ ~IsSingleFileImage(hvafs)
           /\ hdamage = {}
           /\ NotHalfPopulated(hvafs)) => ReadEntryStep]_vars

\* C15: if the lazy load of a directory fails part-way, the directory is
\* not half-populated: it stays in state open with no child linked, so
\* that a later successful load yields each on-disk child exactly once.
C15_FailedLoadLeavesOpen ==
    hvafs.Mode = "Read" =>
        /\ NotHalfPopulated(hvafs)
        /\ \A d \in 1..Len(hvafs.Nodes) :
               (/\ hvafs.Nodes[d].Type = VA_FS_DESCRIPTOR_TYPE_DIRECTORY
                /\ hvafs.Nodes[d].State = "Loaded") =>
                   /\ Len(Children(hvafs, d))
                          = Cardinality(ChildrenWritten(hvafs, d))
                   /\ {Children(hvafs, d)[i] : i \in 1..Len(Children(hvafs, d))}
                          = ChildrenWritten(hvafs, d)

\* a failed load has left a child linked under a directory still to be loaded
C15_HalfPopulated ==
    /\ hvafs.Mode = "Read"
    /\ ~NotHalfPopulated(hvafs)

\* a later successful load has linked an on-disk child twice
C15_LoadedTwice ==
    /\ hvafs.Mode = "Read"
    /\ hdamage = {}
    /\ \E d \in 1..Len(hvafs.Nodes) :
          /\ hvafs.Nodes[d].Type = VA_FS_DESCRIPTOR_TYPE_DIRECTORY
          /\ hvafs.Nodes[d].State = "Loaded"
          /\ Len(Children(hvafs, d)) > Cardinality(ChildrenWritten(hvafs, d))

\* C16: the lock is scoped: vafs_file_read on the data stream and the lazy
\* directory load on the descriptor stream have released the lock when they
\* return, on success and on every failure path, so after any sequence of
\* read-mode operations the lock is free and no call is refused with a
\* contention error.
C16_LockScoped ==
    hvafs.Mode = "Read" =>
        /\ ~hvafs.ImageDevice.Locked
        /\ hlast.errno # "EBUSY"

\* a lazy load has failed on a damaged descriptor block, after the lock was
\* taken, and the lock is free
C16_Witness ==
    /\ hvafs.Mode = "Read"
    /\ hdamage # {}
    /\ hlast.op \in {"open_directory", "open_file", "read_symlink", "read"}
    /\ hlast.status = -1
    /\ hlast.errno # "EBUSY"
    /\ ~NotHalfPopulated(hvafs)
    /\ ~hvafs.ImageDevice.Locked
\* a vafs_file_read has returned on a read-mode image, with the lock free
C16_ReadReturned ==
    /\ hvafs.Mode = "Read"
    /\ hlast.op = "file_read"
    /\ ~hvafs.ImageDevice.Locked

\* C17: an image holding only the root directory can be built and
\* re-opened: finish() of a write-mode stream into which no byte was
\* written succeeds and records a block count of 0 (and the stream with
\* zero block-index entries then opens, the root listing no entry).
C17_EmptyStreamFinishes ==
    (wlast.op = "finish" /\ wwritten = <<>>) =>
        /\ wlast.status = 0
        /\ wstream.Header.BlockHeadersCount = 0
        /\ wstream.BlockHeaders.Count = 0

\* the part of C17 the code keeps: the stream with nothing written has no
\* block-index entry when it is finished
C17_EmptyStreamHasNoBlock ==
    (wlast.op = "finish" /\ wwritten = <<>>) =>
        /\ wlast.status = -1
        /\ wstream.BlockHeaders.Count = 0

(***************************************************************************)
(* Seek specification: one read-mode stream over a written payload         *)
(***************************************************************************)
\* vafs_stream_create, one vafs_stream_write of the payload, vafs_stream_finish
WrittenStream(filter, data) ==
    LET Written(w) == StreamFinish(w.stream, w.dev)
        Created(c) == Written(StreamWrite(StreamSetFilter(c.stream, filter),
                                          c.dev, data))
    IN Created(StreamCreate(CreateMemoryDevice(BlockSize), 0, BlockSize))

\* vafs_streamdevice_open_memory over the bytes of a finished stream,
\* vafs_stream_open and vafs_stream_set_filter
OpenedStream(filter, data) ==
    LET Opened(o) ==
            [stream |-> StreamSetFilter(o.stream, filter), dev |-> o.dev,
             status |-> o.status]
        Finished(f) ==
            Opened(StreamOpen(OpenMemoryDevice(SubSeq(f.dev.Buffer, 1, f.dev.Size)),
                              0))
    IN Finished(WrittenStream(filter, data))

SeekInit ==
    \E filter \in BOOLEAN, seed \in 0..(PatternMod - 1), n \in 1..MaxSeekWritten :
        \E o \in {OpenedStream(filter, Pattern(seed, 0, n))} :
           /\ wstream = o.stream
           /\ wdevice = o.dev
           /\ wwritten = Pattern(seed, 0, n)
           /\ wlast = [op |-> "open", status |-> o.status, block |-> 0,
                       offset |-> 0, before |-> StreamPosition(o.stream),
                       calls |-> 0]
           /\ BuildIdle /\ ReadIdle /\ CacheIdle /\ HandleIdle /\ DeviceIdle /\ PathIdle

\* vafs_stream_seek
DoSeek ==
    /\ wlast.calls < MaxSeeks
    /\ \E block \in 0..MaxSeekBlock, offset \in 0..MaxSeekOffset :
          \E r \in {StreamSeek(wstream, wdevice, block, offset)} :
             /\ wstream' = r.stream
             /\ wdevice' = r.dev
             /\ wlast' = [op |-> "seek", status |-> r.status, block |-> block,
                          offset |-> offset, before |-> StreamPosition(wstream),
                          calls |-> wlast.calls + 1]
    /\ UNCHANGED wwritten
    /\ UNCHANGED <<buildVars, readVars, cacheVars, handleVars, deviceVars, pathVars>>

\* vafs_stream_read of one cell
DoSeekRead ==
    /\ wlast.calls < MaxSeeks
    /\ \E r \in {StreamRead(wstream, wdevice, 1)} :
          /\ wstream' = r.stream
          /\ wdevice' = r.dev
          /\ wlast' = [op |-> "read", status |-> r.status, block |-> 0,
                       offset |-> 0, before |-> StreamPosition(wstream),
                       calls |-> wlast.calls + 1]
    /\ UNCHANGED wwritten
    /\ UNCHANGED <<buildVars, readVars, cacheVars, handleVars, deviceVars, pathVars>>

\* a file that is the whole payload is read from its start to its end in
\* reads of chunk cells: the caller sets the handle's position with
\* vafs_file_seek, which leaves the stream alone, and each vafs_file_read
\* seeks the stream to the file's data position plus the handle's position
\* and reads
RECURSIVE Extract(_, _, _, _, _)
Extract(stream, dev, position, chunk, total) ==
    IF position >= total
        THEN [stream |-> stream, dev |-> dev, status |-> 0, position |-> position]
    ELSE LET Read(rd) ==
                 IF rd.status # 0
                     THEN [stream |-> rd.stream, dev |-> rd.dev, status |-> -1,
                           position |-> position]
                     ELSE Extract(rd.stream, rd.dev,
                                  position + Min(chunk, total - position),
                                  chunk, total)
             Sought(sk) ==
                 IF sk.status # 0
                     THEN [stream |-> sk.stream, dev |-> sk.dev, status |-> -1,
                           position |-> position]
                     ELSE Read(StreamRead(sk.stream, sk.dev,
                                          Min(chunk, total - position)))
         IN Sought(StreamSeek(stream, dev, 0, position))

\* the sizes of the reads a file is extracted with: block by block, or
\* all of it in one read
ExtractChunks == {BlockSize, Len(wwritten)}

\* the extraction of the whole payload
DoExtract ==
    /\ wlast.calls < MaxSeeks
    /\ \E chunk \in ExtractChunks :
          \E r \in {Extract(wstream, wdevice, 0, chunk, Len(wwritten))} :
             /\ wstream' = r.stream
             /\ wdevice' = r.dev
             /\ wlast' = [op |-> "extract", status |-> r.status, block |-> 0,
                          offset |-> r.position, before |-> StreamPosition(wstream),
                          calls |-> wlast.calls + 1, chunk |-> chunk]
    /\ UNCHANGED wwritten
    /\ UNCHANGED <<buildVars, readVars, cacheVars, handleVars, deviceVars, pathVars>>

SeekNext == DoSeek \/ DoSeekRead \/ DoExtract

SeekSpec == SeekInit /\ [][SeekNext]_vars

\* the block a seek to (block, offset) ends in
SeekBlock == wlast.block + (wlast.offset \div BlockSize)

\* C18: in read mode, seek(b, o) with o possibly larger than block_size
\* leaves position() = (b + floor(o / block_size), o mod block_size) with
\* the staging buffer holding that block's uncompressed bytes, provided
\* blocks b .. b + floor(o / block_size) exist; if one of them does not
\* exist the seek fails and leaves position() unchanged.
C18_Seek ==
    wlast.op = "seek" =>
        IF SeekBlock < wstream.BlockHeaders.Count
            THEN /\ wlast.status = 0
                 /\ StreamPosition(wstream)
                       = [Index |-> SeekBlock, Offset |-> wlast.offset % BlockSize]
                 /\ SubSeq(wstream.BlockBuffer, 1, Len(WBlockRaw(SeekBlock)))
                       = WBlockRaw(SeekBlock)
            ELSE /\ wlast.status = -1
                 /\ StreamPosition(wstream) = wlast.before

\* a seek with an offset of more than one block has crossed into a later
\* block, after an earlier call had left the stream elsewhere
C18_Witness ==
    /\ wlast.op = "seek"
    /\ wlast.status = 0
    /\ wlast.offset >= BlockSize
    /\ wlast.calls > 1
    /\ wlast.before # StreamPosition(wstream)
    /\ StreamPosition(wstream)
          = [Index |-> SeekBlock, Offset |-> wlast.offset % BlockSize]

\* a seek beyond the last block has failed with the position kept
C18_Refused ==
    /\ wlast.op = "seek"
    /\ wlast.status = -1
    /\ wlast.before # [Index |-> 0, Offset |-> 0]
    /\ StreamPosition(wstream) = wlast.before

(***************************************************************************)
(* Device specification: two memory devices, one written and one copied    *)
(***************************************************************************)
\* vafs_streamdevice_create_memory and one vafs_streamdevice_write of the
\* cells, none when there is no cell
FilledDevice(data) ==
    IF data = <<>> THEN CreateMemoryDevice(BlockSize)
    ELSE DeviceWrite(CreateMemoryDevice(BlockSize), data).dev

DeviceCalled(op, on, status, offset, whence, data) ==
    [op |-> op, on |-> on, status |-> status, calls |-> mlast.calls + 1,
     destination |-> mdestination, source |-> msource, offset |-> offset,
     whence |-> whence, data |-> data, released |-> mlast.released]

DeviceInit ==
    /\ \E n \in 0..MaxSourceSize : msource = FilledDevice(Pattern(0, 0, n))
    /\ mdestination = CreateMemoryDevice(BlockSize)
    /\ mholder = 0
    /\ mlast = [op |-> "create", on |-> "destination", status |-> 0, calls |-> 0,
                destination |-> <<>>, source |-> <<>>, offset |-> 0,
                whence |-> SEEK_SET, data |-> <<>>, released |-> 0]
    /\ StreamIdle /\ BuildIdle /\ ReadIdle /\ CacheIdle /\ HandleIdle /\ PathIdle

\* vafs_streamdevice_seek on the destination
DoDeviceSeek ==
    /\ mlast.calls < MaxDeviceCalls
    /\ \E offset \in -1..MaxDeviceOffset, whence \in {SEEK_SET, SEEK_CUR, SEEK_END} :
          \E r \in {DeviceSeek(mdestination, offset, whence)} :
             /\ mdestination' = r.dev
             /\ mlast' = DeviceCalled("seek", "destination", r.pos, offset, whence,
                                      <<>>)
    /\ UNCHANGED <<msource, mholder>>
    /\ UNCHANGED <<streamVars, buildVars, readVars, cacheVars, handleVars, pathVars>>

\* vafs_streamdevice_seek on the source
DoSourceSeek ==
    /\ mlast.calls < MaxDeviceCalls
    /\ \E offset \in 0..MaxDeviceOffset :
          \E r \in {DeviceSeek(msource, offset, SEEK_SET)} :
             /\ msource' = r.dev
             /\ mlast' = DeviceCalled("seek", "source", r.pos, offset, SEEK_SET, <<>>)
    /\ UNCHANGED <<mdestination, mholder>>
    /\ UNCHANGED <<streamVars, buildVars, readVars, cacheVars, handleVars, pathVars>>

\* vafs_streamdevice_write on the destination
DoDeviceWrite ==
    /\ mlast.calls < MaxDeviceCalls
    /\ \E n \in 1..MaxDeviceWrite :
          \E data \in {Pattern(1, mlast.calls, n)} :
          \E r \in {DeviceWrite(mdestination, data)} :
             /\ mdestination' = r.dev
             /\ mlast' = DeviceCalled("write", "destination", r.status, 0, SEEK_CUR,
                                      data)
    /\ UNCHANGED <<msource, mholder>>
    /\ UNCHANGED <<streamVars, buildVars, readVars, cacheVars, handleVars, pathVars>>

\* vafs_streamdevice_read on the destination; the record keeps the
\* requested length as offset and the delivered cells as data
DoDeviceRead ==
    /\ mlast.calls < MaxDeviceCalls
    /\ \E length \in 0..MaxDeviceOffset :
          \E r \in {DeviceRead(mdestination, length)} :
             /\ mdestination' = r.dev
             /\ mlast' = DeviceCalled("read", "destination", r.status, length,
                                      SEEK_CUR, r.data)
    /\ UNCHANGED <<msource, mholder>>
    /\ UNCHANGED <<streamVars, buildVars, readVars, cacheVars, handleVars, pathVars>>

\* vafs_streamdevice_write on the destination of more cells than the
\* capacity has left, the allocator having no memory
DoDeviceWriteNoMemory ==
    /\ mlast.calls < MaxDeviceCalls
    /\ \E n \in 1..MaxDeviceWrite :
          \E data \in {Pattern(1, mlast.calls, n)} :
             /\ ~mdestination.ReadOnly
             /\ n > MemsizeAvailable(mdestination)
             /\ \E r \in {MemoryWriteNoMemory(mdestination, data)} :
                   /\ mdestination' = r.dev
                   /\ mlast' = DeviceCalled("write_nomem", "destination", r.status,
                                            0, SEEK_CUR, data)
    /\ UNCHANGED <<msource, mholder>>
    /\ UNCHANGED <<streamVars, buildVars, readVars, cacheVars, handleVars, pathVars>>

\* vafs_streamdevice_copy from the source into the destination
DoDeviceCopy ==
    /\ mlast.calls < MaxDeviceCalls
    /\ \E r \in {DeviceCopy(mdestination, msource)} :
          /\ mdestination' = r.destination
          /\ msource' = r.source
          /\ mlast' = DeviceCalled("copy", "destination", r.status, 0, SEEK_CUR,
                                   <<>>)
    /\ UNCHANGED mholder
    /\ UNCHANGED <<streamVars, buildVars, readVars, cacheVars, handleVars, pathVars>>

\* vafs_streamdevice_copy from the source into the destination, the two
\* devices taken as devices of either backend, under a fault
DoBackendCopy ==
    /\ mlast.calls < MaxDeviceCalls
    /\ \E kinds \in [source : Backends, destination : Backends],
          fault \in CopyFaults :
          /\ FaultOf(kinds, fault)
          /\ \E r \in {BackendCopy(mdestination, msource, kinds, fault)} :
                /\ mdestination' = r.destination
                /\ msource' = r.source
                /\ mlast' = [op |-> "backend_copy", on |-> "destination",
                             status |-> r.status, calls |-> mlast.calls + 1,
                             destination |-> mdestination, source |-> msource,
                             kinds |-> kinds, fault |-> fault,
                             readFault |-> r.readFault, short |-> r.short,
                             writeFault |-> r.writeFault,
                             released |-> mlast.released]
    /\ UNCHANGED mholder
    /\ UNCHANGED <<streamVars, buildVars, readVars, cacheVars, handleVars, pathVars>>

\* the callers that contend for the destination's lock
Callers == {1, 2}

\* released counts the unlock calls made so far
LockCalled(op, caller, status, errno) ==
    [op |-> op, on |-> "destination", status |-> status, errno |-> errno,
     caller |-> caller, calls |-> mlast.calls + 1, holder |-> mholder,
     destination |-> mdestination, source |-> msource,
     released |-> IF op = "unlock" THEN mlast.released + 1 ELSE mlast.released]

\* vafs_streamdevice_lock on the destination, by either caller
DoDeviceLock ==
    /\ mlast.calls < MaxDeviceCalls
    /\ \E caller \in Callers :
          \E r \in {DeviceLock(mdestination)} :
             /\ mdestination' = r.dev
             /\ mholder' = IF r.status = 0 THEN caller ELSE mholder
             /\ mlast' = LockCalled("lock", caller, r.status, r.errno)
    /\ UNCHANGED msource
    /\ UNCHANGED <<streamVars, buildVars, readVars, cacheVars, handleVars, pathVars>>

\* vafs_streamdevice_unlock on the destination, by the caller that holds
\* the lock
DoDeviceUnlock ==
    /\ mlast.calls < MaxDeviceCalls
    /\ mholder \in Callers
    /\ mdestination' = DeviceUnlock(mdestination)
    /\ mholder' = 0
    /\ mlast' = LockCalled("unlock", mholder, 0, "OK")
    /\ UNCHANGED msource
    /\ UNCHANGED <<streamVars, buildVars, readVars, cacheVars, handleVars, pathVars>>

DeviceNext ==
    \/ DoDeviceSeek \/ DoSourceSeek \/ DoDeviceWrite \/ DoDeviceCopy
    \/ DoDeviceRead \/ DoDeviceWriteNoMemory \/ DoBackendCopy
    \/ DoDeviceLock \/ DoDeviceUnlock

DeviceSpec == DeviceInit /\ [][DeviceNext]_vars

\* the offset a seek on the destination asked for
Requested ==
    CASE mlast.whence = SEEK_SET -> mlast.offset
      [] mlast.whence = SEEK_CUR -> mlast.destination.Position + mlast.offset
      [] mlast.whence = SEEK_END -> mlast.destination.Size + mlast.offset

DestinationSeek == mlast.op = "seek" /\ mlast.on = "destination"

\* the cells of a memory device that are valid
ValidCells(dev) == SubSeq(dev.Buffer, 1, dev.Size)

\* C19: on a memory device, seeking past the valid size is allowed (the
\* position becomes the requested offset) and does not change the valid
\* size; a write performed at a position past the valid size extends the
\* valid size to the end of the written bytes; SEEK_END is relative to the
\* valid size, not to the capacity.
C19_MemoryDevice ==
    /\ (DestinationSeek /\ Requested >= 0) =>
           /\ mdestination.Position = Requested
           /\ mlast.status = Requested
           /\ mdestination.Size = mlast.destination.Size
           /\ ValidCells(mdestination) = ValidCells(mlast.destination)
    /\ mlast.op = "write" =>
           /\ mlast.status = 0
           /\ mdestination.Position = mlast.destination.Position + Len(mlast.data)
           /\ mdestination.Size
                 = Max(mlast.destination.Size, mdestination.Position)

\* what the memory device does: a seek leaves the position at the requested
\* offset brought into 0 .. valid size and the valid cells as they were, so
\* no write starts past the valid size; a write extends the valid size to
\* its end when it ends past it
C19_SeekClamped ==
    /\ DestinationSeek =>
           /\ mdestination.Position
                 = Min(Max(Requested, 0), mlast.destination.Size)
           /\ mlast.status = mdestination.Position
           /\ ValidCells(mdestination) = ValidCells(mlast.destination)
    /\ mlast.op = "write" =>
           /\ mlast.status = 0
           /\ mlast.destination.Position <= mlast.destination.Size
           /\ mdestination.Position = mlast.destination.Position + Len(mlast.data)
           /\ mdestination.Size
                 = Max(mlast.destination.Size, mdestination.Position)

\* a seek past the valid size has left the position at the valid size
C19_SoughtPastSize ==
    /\ DestinationSeek
    /\ mlast.destination.Size > 0
    /\ Requested > mlast.destination.Size
    /\ mdestination.Position = mlast.destination.Size

\* C20: copy(destination, source) with a memory-backed source appends
\* exactly the source's valid bytes [0, valid size), in order, at the
\* destination's position at the time of the call and advances the
\* destination position by the valid size, whatever the source's position
\* was before the call and for valid sizes below, equal to and above the
\* transfer-buffer size (including 0).
C20_Copy ==
    mlast.op = "copy" =>
        LET at == mlast.destination.Position
            size == mlast.source.Size
        IN /\ mlast.status = 0
           /\ mdestination.Position = at + size
           /\ mdestination.Size = Max(mlast.destination.Size, at + size)
           /\ SubSeq(mdestination.Buffer, at + 1, at + size)
                 = ValidCells(mlast.source)
           /\ SubSeq(mdestination.Buffer, 1, at)
                 = SubSeq(mlast.destination.Buffer, 1, at)
           /\ ValidCells(msource) = ValidCells(mlast.source)

\* a source of more cells than the transfer buffer holds, standing neither
\* at its start nor at its end, was copied into the middle of the
\* destination's valid cells
C20_Witness ==
    /\ mlast.op = "copy"
    /\ mlast.status = 0
    /\ mlast.source.Size > TRANSFER_BUFFER_SIZE
    /\ mlast.source.Position > 0
    /\ mlast.source.Position < mlast.source.Size
    /\ mlast.destination.Position > 0
    /\ mlast.destination.Position < mlast.destination.Size
    /\ mdestination.Position = mlast.destination.Position + mlast.source.Size

\* a source with no valid cell was copied
C20_EmptySource ==
    /\ mlast.op = "copy"
    /\ mlast.source.Size = 0
    /\ mdestination = mlast.destination

\* a source of exactly one transfer buffer was copied
C20_OneBuffer ==
    /\ mlast.op = "copy"
    /\ mlast.source.Size = TRANSFER_BUFFER_SIZE
    /\ mdestination.Position = mlast.destination.Position + TRANSFER_BUFFER_SIZE

\* C21: device lock acquisition never blocks: acquiring a lock that is
\* already held fails immediately with a contention error (EBUSY) and
\* leaves the lock held by its holder; acquiring a free lock succeeds;
\* after the holder releases it the lock can be acquired again.
C21_LockNeverBlocks ==
    /\ mdestination.Locked <=> mholder \in Callers
    /\ mlast.op = "lock" =>
           IF mlast.holder \in Callers
               THEN /\ mlast.status = -1
                    /\ mlast.errno = "EBUSY"
                    /\ mholder = mlast.holder
                    /\ mdestination = mlast.destination
               ELSE /\ mlast.status = 0
                    /\ mholder = mlast.caller
    /\ mlast.op = "unlock" => mholder = 0 /\ ~mdestination.Locked

\* the lock was acquired again after its holder had released it
C21_Witness ==
    /\ mlast.op = "lock"
    /\ mlast.released > 0
    /\ mlast.status = 0
    /\ mlast.holder = 0
    /\ mholder = mlast.caller
    /\ mdestination.Locked

\* a caller was refused the lock that the other one held
C21_Refused ==
    /\ mlast.op = "lock"
    /\ mlast.status = -1
    /\ mlast.errno = "EBUSY"
    /\ mlast.caller # mholder
    /\ mholder \in Callers

(***************************************************************************)
(* Path specification: the tokenizers and the symlink resolution, call by  *)
(* call                                                                    *)
(***************************************************************************)
\* the component lengths tried against a token buffer
ComponentLengths(tokenSize) == 1..(tokenSize + MaxComponentExcess)

\* leading separators, one component and what follows it
TokenPath(leading, length, cell, rest) ==
    [i \in 1..leading |-> Slash] \o [i \in 1..length |-> cell] \o rest

PathRests == {<<>>, <<Slash>>, <<Slash, 98>>}

PathInit ==
    /\ pcall = [op |-> "none"]
    /\ presult = <<>>
    /\ StreamIdle /\ BuildIdle /\ ReadIdle /\ CacheIdle /\ HandleIdle /\ DeviceIdle

\* __get_path_token on the token buffer of the directory calls
DoGetPathToken ==
    /\ \E leading \in 0..MaxLeadingSlashes, rest \in PathRests,
          length \in ComponentLengths(ScaledDirectoryToken) :
          \E path \in {TokenPath(leading, length, 97, rest)} :
             /\ pcall' = [op |-> "get_path_token", path |-> path,
                          tokenSize |-> ScaledDirectoryToken, leading |-> leading,
                          length |-> length]
             /\ presult' = GetPathToken(path, ScaledDirectoryToken)
    /\ UNCHANGED <<streamVars, buildVars, readVars, cacheVars, handleVars, deviceVars>>

\* __vafs_pathtoken on the token[VAFS_NAME_MAX + 1] of vafs_file_open,
\* vafs_symlink_open and vafs_path_stat
DoVafsPathToken ==
    /\ \E leading \in 0..MaxLeadingSlashes, rest \in PathRests,
          length \in ComponentLengths(ScaledNameMax + 1) :
          \E path \in {TokenPath(leading, length, 97, rest)} :
             /\ pcall' = [op |-> "vafs_pathtoken", path |-> path,
                          tokenSize |-> ScaledNameMax + 1, leading |-> leading,
                          length |-> length]
             /\ presult' = VafsPathToken(path, ScaledNameMax + 1)
    /\ UNCHANGED <<streamVars, buildVars, readVars, cacheVars, handleVars, deviceVars>>

TokenCalls == {"get_path_token", "vafs_pathtoken"}

\* the longest name each caller may accept: the 128 of the directory
\* calls, VAFS_NAME_MAX elsewhere
NameLimit ==
    IF pcall.op = "get_path_token" THEN ScaledDirectoryToken ELSE ScaledNameMax

\* C22: path tokenization bounds names: a path component is accepted only
\* if it is no longer than the limit (255 bytes in vafs_file_open,
\* vafs_symlink_open and vafs_path_stat; 128 in the directory create/open
\* calls), a longer component fails with ENAMETOOLONG, the accepted token
\* together with its terminator always fits in the caller's token buffer,
\* and an accepted token never contains '/'.
C22_TokenBounded ==
    pcall.op \in TokenCalls =>
        IF pcall.length <= NameLimit
            THEN /\ presult.consumed = pcall.leading + pcall.length
                 /\ presult.token = [i \in 1..pcall.length |-> 97]
                 /\ Len(presult.token) + 1 <= pcall.tokenSize
                 /\ \A i \in 1..Len(presult.token) : presult.token[i] # Slash
            ELSE /\ presult.consumed = 0
                 /\ presult.errno = "ENAMETOOLONG"

\* what the tokenizers do: a component of up to tokenSize cells is accepted,
\* one more than VAFS_NAME_MAX in the path calls, and the terminator of a
\* component of tokenSize cells is stored one cell behind the token buffer
C22_TokenBufferFilled ==
    pcall.op \in TokenCalls =>
        IF pcall.length <= pcall.tokenSize
            THEN /\ presult.consumed = pcall.leading + pcall.length
                 /\ presult.token = [i \in 1..pcall.length |-> 97]
                 /\ \A i \in 1..Len(presult.token) : presult.token[i] # Slash
            ELSE /\ presult.consumed = 0
                 /\ presult.errno = "ENAMETOOLONG"

\* a component as long as the token buffer was accepted
C22_Overrun ==
    /\ pcall.op \in TokenCalls
    /\ presult.consumed > 0
    /\ Len(presult.token) = pcall.tokenSize

\* the prefixes of a traversal that lead to a symlink
ResolveBases ==
    {<<>>, <<Slash>>, <<Slash, 97>>, <<Slash, 97, Slash>>,
     <<Slash, 97, Slash, Slash, 98>>}

\* the symlink targets: every string of separators, dots and one letter
ResolveTargets ==
    UNION {[1..n -> {Slash, Dot, 97}] : n \in 0..MaxTargetLength}

\* __vafs_resolve_symlink into a buffer of VAFS_PATH_MAX cells
DoResolveSymlink ==
    /\ \E base \in ResolveBases, target \in ResolveTargets :
          /\ pcall' = [op |-> "resolve_symlink", base |-> base, target |-> target]
          /\ presult' = ResolveSymlink(VAFS_PATH_MAX, base, Len(base), target)
    /\ UNCHANGED <<streamVars, buildVars, readVars, cacheVars, handleVars, deviceVars>>

\* __vafs_resolve_symlink into a buffer of bufferLength cells; the path
\* left in the buffer has j cells and the terminator is stored into cell j
\* (counted from 0)
DoResolveBounded ==
    /\ \E bufferLength \in 1..MaxResolveBuffer, base \in ResolveBases,
          target \in UNION {[1..n -> {Slash, Dot, 97}] : n \in 0..MaxBoundedTarget} :
          /\ pcall' = [op |-> "resolve_bounded", base |-> base, target |-> target,
                       bufferLength |-> bufferLength]
          /\ presult' = ResolveSymlink(bufferLength, base, Len(base), target)
    /\ UNCHANGED <<streamVars, buildVars, readVars, cacheVars, handleVars, deviceVars>>

\* the name lengths the create calls accept: up to the token buffer of the
\* directory calls less its terminator
DescriptorNameLengths == {1, 2, DirectoryTokenSize - 1}

\* the target lengths vafs_directory_create_symlink is called with: short
\* ones, and the ones around the greatest value of a uint16_t field
DescriptorTargetLengths ==
    (1..2) \cup
    ((Uint16Modulus - DirectoryTokenSize - SymlinkDescriptorSize - MaxTargetExcess)
         ..(Uint16Modulus + MaxTargetExcess))

\* the descriptor a create call leaves in a node of a type
InitialDescriptor(type) ==
    CASE type = VA_FS_DESCRIPTOR_TYPE_FILE -> NewFile(<<>>, BasePermissions).Descriptor
      [] type = VA_FS_DESCRIPTOR_TYPE_DIRECTORY ->
             NewDirectory(<<>>, BasePermissions).Descriptor
      [] type = VA_FS_DESCRIPTOR_TYPE_SYMLINK -> NewSymlink(<<>>, <<>>).Descriptor

\* __write_file_descriptor, __write_directory_descriptor and
\* __write_symlink_descriptor on an entry with a name and a target of the
\* lengths given: the descriptor with its length fields set, and the sizes
\* handed to the vafs_stream_write calls
DoWriteDescriptor ==
    /\ \E type \in {VA_FS_DESCRIPTOR_TYPE_FILE, VA_FS_DESCRIPTOR_TYPE_DIRECTORY,
                    VA_FS_DESCRIPTOR_TYPE_SYMLINK},
          nameLength \in DescriptorNameLengths,
          targetLength \in DescriptorTargetLengths :
          /\ type # VA_FS_DESCRIPTOR_TYPE_SYMLINK => targetLength = 1
          /\ pcall' = [op |-> "write_descriptor", type |-> type,
                       nameLength |-> nameLength,
                       targetLength |-> IF type = VA_FS_DESCRIPTOR_TYPE_SYMLINK
                                            THEN targetLength ELSE 0]
          /\ presult' =
                IF type = VA_FS_DESCRIPTOR_TYPE_SYMLINK
                    THEN [descriptor |-> SymlinkLengths(InitialDescriptor(type),
                                                        nameLength, targetLength),
                          written |-> <<SymlinkDescriptorSize, nameLength,
                                        targetLength>>]
                    ELSE [descriptor |->
                              [InitialDescriptor(type) EXCEPT
                                  !.Base = NamedLength(@, nameLength)],
                          written |-> <<GetDescriptorSize(type), nameLength>>]
    /\ UNCHANGED <<streamVars, buildVars, readVars, cacheVars, handleVars, deviceVars>>

PathNext ==
    \/ DoGetPathToken \/ DoVafsPathToken \/ DoResolveSymlink \/ DoWriteDescriptor
    \/ DoResolveBounded

PathSpec == PathInit /\ [][PathNext]_vars

\* the components of a path: the cells between separators, none empty
RECURSIVE Components(_, _, _)
Components(path, i, current) ==
    IF i > Len(path)
        THEN IF current = <<>> THEN <<>> ELSE <<current>>
    ELSE IF path[i] = Slash
        THEN (IF current = <<>> THEN <<>> ELSE <<current>>)
                 \o Components(path, i + 1, <<>>)
    ELSE Components(path, i + 1, Append(current, path[i]))

\* the canonical form of a list of components: "." is dropped, ".." removes
\* the component before it, none at the root
RECURSIVE Canonical(_, _)
Canonical(components, done) ==
    IF components = <<>> THEN done
    ELSE IF Head(components) = <<Dot>> THEN Canonical(Tail(components), done)
    ELSE IF Head(components) = <<Dot, Dot>>
        THEN Canonical(Tail(components),
                       IF done = <<>> THEN <<>> ELSE SubSeq(done, 1, Len(done) - 1))
    ELSE Canonical(Tail(components), Append(done, Head(components)))

\* C23: symlink target resolution yields the canonical form of (traversal
\* prefix + target): every '.' component is dropped, every '..' component
\* removes the preceding component and clamps at root when there is none,
\* repeated separators collapse into one, and every other component is
\* copied unchanged.
C23_ResolveCanonical ==
    pcall.op = "resolve_symlink" =>
        Components(presult, 1, <<>>)
            = Canonical(Components(pcall.base \o pcall.target, 1, <<>>), <<>>)

\* the part of C23 the code keeps: with no '.' in the target, the prefix
\* and the target are copied with repeated separators collapsed into one
\* and no separator at the start
C23_SeparatorsCollapse ==
    (/\ pcall.op = "resolve_symlink"
     /\ \A i \in 1..Len(pcall.target) : pcall.target[i] # Dot) =>
        /\ Components(presult, 1, <<>>)
              = Components(pcall.base \o pcall.target, 1, <<>>)
        /\ presult # <<>> => presult[1] # Slash
        /\ \A i \in 1..(Len(presult) - 1) :
               ~(presult[i] = Slash /\ presult[i + 1] = Slash)

\* a '.' inside a name was dropped from the resolved path
C23_DotDropped ==
    /\ pcall.op = "resolve_symlink"
    /\ pcall.base = <<>>
    /\ pcall.target = <<97, Dot, 97>>
    /\ presult = <<97, 97>>

\* what a vafs_path_stat of a file of the image is to return
FileStat(name) ==
    [type |-> "S_IFREG", permissions |-> BasePermissions,
     size |-> Len(rexpected[name])]

\* the handle held refers to the named file, with the permissions and the
\* length it was stored with
HandleOn(name) ==
    /\ rlast.status = 0
    /\ rvafs.Nodes[rhandle.File].Name = name
    /\ rvafs.Nodes[rhandle.File].Descriptor.Permissions = FileStat(name).permissions
    /\ rvafs.Nodes[rhandle.File].Descriptor.FileLength = FileStat(name).size

Stat(stat) == rlast.status = 0 /\ rlast.stat = stat

\* C24: for every path that resolves to a regular file, vafs_path_stat
\* returns mode = regular | the file's stored permissions and size = the
\* file's length, the same values vafs_file_permissions and
\* vafs_file_length report on a handle opened with vafs_file_open on that
\* path; for a path that resolves to a directory (the root included) it
\* returns mode = directory | that directory's stored permissions and
\* size 0.
C24_PathStat ==
    /\ rlast.op = "path_stat" =>
           CASE rlast.path \in {PathAB, PathCB} -> Stat(FileStat(NameB))
             [] rlast.path = PathDD -> Stat(FileStat(NameDD))
             [] rlast.path = PathA ->
                    Stat([type |-> "S_IFDIR", permissions |-> RootStatPermissions,
                          size |-> 0])
             [] rlast.path = PathRoot ->
                    Stat([type |-> "S_IFDIR", permissions |-> RootPermissions,
                          size |-> 0])
    /\ rlast.op = "file_open" =>
           CASE rlast.path \in {PathAB, PathCB} -> HandleOn(NameB)
             [] rlast.path = PathDD -> HandleOn(NameDD)
             [] OTHER -> rlast.status = -1

\* the part of C24 the code keeps: the paths that lead to a file or to a
\* directory below the root without passing a symlink
C24_PathStatBelowRoot ==
    /\ rlast.op = "path_stat" =>
           CASE rlast.path = PathAB -> Stat(FileStat(NameB))
             [] rlast.path = PathDD -> Stat(FileStat(NameDD))
             [] rlast.path = PathA ->
                    Stat([type |-> "S_IFDIR", permissions |-> RootStatPermissions,
                          size |-> 0])
             [] rlast.path = PathRoot ->
                    Stat([type |-> "S_IFDIR", permissions |-> RootStatPermissions,
                          size |-> 0])
             [] OTHER -> rlast.status = -1
    /\ rlast.op = "file_open" =>
           CASE rlast.path = PathAB -> HandleOn(NameB)
             [] rlast.path = PathDD -> HandleOn(NameDD)
             [] OTHER -> rlast.status = -1

\* vafs_path_stat of the root has returned 0755 for the root created with 0777
C24_RootStat ==
    /\ rlast.op = "path_stat"
    /\ rlast.path = PathRoot
    /\ rlast.status = 0
    /\ rlast.stat.permissions = RootStatPermissions
    /\ RootStatPermissions # RootPermissions
(***************************************************************************)
(* Close-time serialization order                                          *)
(***************************************************************************)
\* the uncompressed byte space of the descriptor stream, read from the
\* final device
DescriptorBytes(header) ==
    LET h == StreamHeaderAt(header.DescriptorBlockOffset)
    IN DecodeBlocks(SubSeq(ImageCells,
                           header.DescriptorBlockOffset + StreamHeaderSize + 1,
                           header.DescriptorBlockOffset + h.BlockHeadersOffset),
                    bvafs.DescriptorStream.HasFilter, h.BlockSize)

\* the position of a directory's listing in that byte space
ListingPosition(vafs, directory) ==
    vafs.Nodes[directory].Descriptor.Descriptor.Index
            * vafs.DescriptorStream.Header.BlockSize
        + vafs.Nodes[directory].Descriptor.Descriptor.Offset

\* the cells one entry's descriptor is written as
DescriptorRecord(node) ==
    CASE node.Type = VA_FS_DESCRIPTOR_TYPE_FILE ->
             FileDescriptorCells(node.Descriptor) \o node.Name
      [] node.Type = VA_FS_DESCRIPTOR_TYPE_DIRECTORY ->
             DirectoryDescriptorCells(node.Descriptor) \o node.Name
      [] node.Type = VA_FS_DESCRIPTOR_TYPE_SYMLINK ->
             SymlinkDescriptorCells(node.Descriptor) \o node.Name \o node.Target

\* the descriptors of entries, from the head of the list, stand at offset
\* of the byte space
RECURSIVE DescriptorsAt(_, _, _, _)
DescriptorsAt(bytes, offset, vafs, entries) ==
    IF entries = <<>> THEN TRUE
    ELSE LET record == DescriptorRecord(vafs.Nodes[Head(entries)])
         IN /\ offset + Len(record) <= Len(bytes)
            /\ SubSeq(bytes, offset + 1, offset + Len(record)) = record
            /\ DescriptorsAt(bytes, offset + Len(record), vafs, Tail(entries))

Subdirectories(vafs, directory) ==
    {vafs.Nodes[directory].Entries[i] : i \in 1..Len(vafs.Nodes[directory].Entries)}
        \cap Directories(vafs)

\* C25: after a successful close every directory has a captured listing
\* position (never the invalid one), the listing of every subdirectory
\* stands before the listing of its parent, the descriptor stream holds at
\* each directory's position its entry count followed by its descriptors,
\* each directory descriptor carrying the position of that directory's own
\* listing, and the root's position is the last one
C25_PostOrder ==
    bphase = "closed" =>
        LET bytes == DescriptorBytes(bvafs.Header)
        IN /\ \A d \in Directories(bvafs) :
                /\ bvafs.Nodes[d].Descriptor.Descriptor.Index # VA_FS_INVALID_BLOCK
                /\ bvafs.Nodes[d].Descriptor.Descriptor.Offset # VA_FS_INVALID_OFFSET
                /\ ListingPosition(bvafs, d) < Len(bytes)
                /\ bytes[ListingPosition(bvafs, d) + 1] = Len(bvafs.Nodes[d].Entries)
                /\ DescriptorsAt(bytes, ListingPosition(bvafs, d) + 1, bvafs,
                                 bvafs.Nodes[d].Entries)
                /\ \A c \in Subdirectories(bvafs, d) :
                       ListingPosition(bvafs, c) < ListingPosition(bvafs, d)
           /\ \A d \in Directories(bvafs) \ {bvafs.RootDirectory} :
                  ListingPosition(bvafs, d)
                      < ListingPosition(bvafs, bvafs.RootDirectory)

\* a closed image in which a directory below the root has a subdirectory
\* of its own
C25_Witness ==
    /\ bphase = "closed"
    /\ \E d \in Directories(bvafs) \ {bvafs.RootDirectory} :
           Subdirectories(bvafs, d) # {}

(***************************************************************************)
(* Opening a created directory again                                       *)
(***************************************************************************)
\* the subdirectory of directory that carries name, 0 when there is none
CreatedDirectory(vafs, directory, name) ==
    LET named == {c \in Subdirectories(vafs, directory) : vafs.Nodes[c].Name = name}
    IN IF named = {} THEN 0 ELSE CHOOSE c \in named : TRUE

\* C26: in a write-mode image vafs_directory_open_directory on the name of
\* a directory created earlier in the directory of the handle succeeds and
\* returns a handle on that directory
C26_OpenCreatedDirectory ==
    [][ ( /\ hvafs.Mode = "Write"
          /\ hlast'.calls # hlast.calls
          /\ hlast'.op = "open_directory"
          /\ CreatedDirectory(hvafs, hdir.Directory, hlast'.name) # 0 )
        => /\ hlast'.status = 0
           /\ hdir'.Directory = CreatedDirectory(hvafs, hdir.Directory, hlast'.name)
      ]_vars

\* what the calls do in a write-mode image: open_directory is refused with
\* EACCES whether or not the directory exists and changes nothing, and the
\* create_directory the builder falls back to is refused with EEXIST when
\* the directory exists
C26_WriteModeOpenRefused ==
    [][ ( /\ hvafs.Mode = "Write"
          /\ hlast'.calls # hlast.calls )
        => /\ hlast'.op = "open_directory" =>
                 /\ hlast'.status = -1 /\ hlast'.errno = "EACCES"
                 /\ hdir' = hdir /\ hvafs' = hvafs
           /\ ( /\ hlast'.op = "create_directory"
                /\ CreatedDirectory(hvafs, hdir.Directory, hlast'.name) # 0 ) =>
                 /\ hlast'.status = -1 /\ hlast'.errno = "EEXIST"
                 /\ hdir' = hdir
      ]_vars

\* an open_directory on the name of a created directory was refused
C26_OpenRefused ==
    /\ hvafs.Mode = "Write"
    /\ hlast.op = "open_directory" /\ hlast.errno = "EACCES"
    /\ CreatedDirectory(hvafs, hdir.Directory, hlast.name) # 0

(***************************************************************************)
(* Order of a directory's children: created, on disk, loaded               *)
(***************************************************************************)
\* the names of count descriptors that stand at offset of the descriptor
\* byte space, in the order in which they stand there
RECURSIVE DiskNames(_, _, _)
DiskNames(bytes, offset, count) ==
    IF count = 0 \/ offset + DescriptorBaseSize > Len(bytes) THEN <<>>
    ELSE LET type == bytes[offset + 1]
             length == bytes[offset + 2]
             size == GetDescriptorSize(type)
             name == IF type = VA_FS_DESCRIPTOR_TYPE_SYMLINK
                         THEN SubSeq(bytes, offset + size + 1,
                                     offset + size + bytes[offset + 3])
                         ELSE SubSeq(bytes, offset + size + 1, offset + length)
         IN <<name>> \o DiskNames(bytes, offset + length, count - 1)

\* the names of a directory's listing on disk
ListingNames(vafs, directory) ==
    LET bytes == DescriptorBytes(vafs.Header)
        position == ListingPosition(vafs, directory)
    IN IF position >= Len(bytes) THEN <<>>
       ELSE DiskNames(bytes, position + 1, bytes[position + 1])

\* the names created in a directory, in call order
CreatedNames(directory) ==
    LET created == SelectSeq(blog, LAMBDA e : e.parent = directory)
    IN [i \in 1..Len(created) |-> created[i].Name]

\* the names of a list of entries, from its head
EntryNames(vafs, entries) == [i \in 1..Len(entries) |-> vafs.Nodes[entries[i]].Name]

\* the names a loaded directory is iterated in, with the status of the load
LoadedNames(vafs, directory) ==
    LET l == LoadDirectory(vafs, directory)
    IN [status |-> l.status,
        names |-> EntryNames(l.vafs, l.vafs.Nodes[directory].Entries),
        vafs |-> l.vafs]

\* a directory of the image read back and every subdirectory of it is
\* iterated in the reverse of the order its listing has on disk
LoadedReversed(vafs, directory) ==
    LET l == LoadedNames(vafs, directory)
    IN l.status = 0 =>
          /\ l.names = Reverse(ListingNames(vafs, directory))
          /\ \A c \in Subdirectories(l.vafs, directory) :
                 LET m == LoadedNames(l.vafs, c)
                 IN m.status = 0 => m.names = Reverse(ListingNames(l.vafs, c))

ChildRequests == {"open_directory", "open_file", "read_symlink", "read"}

\* a call was made that asked the directory of the handle for its children
ChildRequest ==
    /\ hlast'.calls # hlast.calls
    /\ hlast'.op \in ChildRequests

\* a loaded directory stays loaded, with the children it has
LoadedStays ==
    \A d \in 1..Len(hvafs.Nodes) :
        (/\ hvafs.Nodes[d].Type = VA_FS_DESCRIPTOR_TYPE_DIRECTORY
         /\ hvafs.Nodes[d].State = "Loaded") =>
            /\ hvafs'.Nodes[d].State = "Loaded"
            /\ hvafs'.Nodes[d].Entries = hvafs.Nodes[d].Entries

\* a request to a loaded directory leaves the descriptor stream and the
\* device below it as they were: no lock, no seek, no read
ServedFromMemory ==
    (ChildRequest /\ hvafs.Nodes[hdir.Directory].State = "Loaded") =>
        /\ hvafs'.DescriptorStream = hvafs.DescriptorStream
        /\ hvafs'.ImageDevice = hvafs.ImageDevice

\* a request to a directory that is open loads it
FirstRequestLoads ==
    (ChildRequest /\ hvafs.Nodes[hdir.Directory].State = "Open") =>
        hvafs'.Nodes[hdir.Directory].State = "Loaded"

\* C28: lazy load is a one-way state machine: on a read-mode image whose
\* device delivers what was written, the first request for a directory's
\* children reads the listing and moves the directory from open to loaded,
\* a loaded directory never returns to open, and every later request is
\* served from memory without locking, seeking or reading the descriptor
\* stream, so that each listing is read at most once
C28_LazyLoadOneWay ==
    [][ (hvafs.Mode = "Read" /\ hdamage = {} /\ hdamage' = {})
            => (LoadedStays /\ ServedFromMemory /\ FirstRequestLoads) ]_vars

\* the part that holds: a loaded directory stays loaded and is served from
\* memory, also when the device has failed; and the first request loads the
\* directory on every undamaged image but the one whose root listing ends
\* with the last cell of a descriptor block
C28_LoadedIsFinal ==
    [][ hvafs.Mode = "Read" =>
          /\ LoadedStays
          /\ ServedFromMemory
          /\ (/\ ~IsSingleFileImage(hvafs)
              /\ hdamage = {} /\ hdamage' = {}
              /\ NotHalfPopulated(hvafs)) => FirstRequestLoads ]_vars

\* the first call on an image opened to read has asked the root for its
\* children and has read the listing, and the root is still open: the next
\* request reads the listing again
C28_ReadAgain ==
    /\ hvafs.Mode = "Read"
    /\ hdamage = {}
    /\ hlast.calls = 1
    /\ hlast.op \in ChildRequests
    /\ hlast.status = -1
    /\ hvafs.Nodes[hdir.Directory].State = "Open"
    /\ hvafs.DescriptorStream.BlockBufferOffset > 0

(***************************************************************************)
(* Stream specification: the blocks of a finished stream                   *)
(***************************************************************************)
CeilDiv(n, d) == (n + d - 1) \div d

\* the uncompressed cells of block i (from 0) of the finished stream, found
\* on the device through entry i of the block-index table
TableBlock(i) ==
    LET header == TableOnDevice(wdevice, wstream.DeviceOffset)[i + 1]
        cells == Slice(wdevice.Buffer, wstream.DeviceOffset + header.Offset,
                       header.LengthOnDisk)
    IN IF wstream.HasFilter THEN FilterDecode(cells, BlockSize).output ELSE cells

RECURSIVE TableBlocks(_)
\* the blocks 0..count - 1, concatenated
TableBlocks(count) ==
    IF count = 0 THEN <<>> ELSE TableBlocks(count - 1) \o TableBlock(count - 1)

\* the number of blocks the written header of the stream names
BlockCount ==
    StreamHeaderFromCells(Slice(wdevice.Buffer, wstream.DeviceOffset,
                                StreamHeaderSize)).BlockHeadersCount

\* C29: after stream writes totalling N bytes and a finish, the stream has
\* ceil(N / block_size) blocks, every block but the last holds block_size
\* uncompressed bytes, and the blocks' uncompressed bytes, concatenated,
\* are the written bytes in call order
C29_Blocks ==
    WFinished =>
        /\ BlockCount = CeilDiv(Len(wwritten), BlockSize)
        /\ wstream.BlockHeaders.Count = BlockCount
        /\ \A i \in 0..BlockCount - 2 : Len(TableBlock(i)) = BlockSize
        /\ TableBlocks(BlockCount) = wwritten

\* the part that holds: the count, and the cells that lie between the
\* stream header and the block-index table are the blocks of block_size
\* written bytes each, the last one shorter, in call order; up to the
\* initial table capacity the table finds them
C29_BlocksOnDevice ==
    WFinished =>
        /\ BlockCount = CeilDiv(Len(wwritten), BlockSize)
        /\ wstream.BlockHeaders.Count = BlockCount
        /\ \A i \in 0..BlockCount - 2 : Len(WBlockRaw(i)) = BlockSize
        /\ \A i \in 0..BlockCount - 1 :
               Slice(wdevice.Buffer, wstream.DeviceOffset + WBlockStart(i),
                     Len(WBlockEncoded(i))) = WBlockEncoded(i)
        /\ wstream.Header.BlockHeadersOffset = WBlockStart(BlockCount)
        /\ BlockCount <= InitialHeaderCapacity =>
               /\ \A i \in 0..BlockCount - 2 : Len(TableBlock(i)) = BlockSize
               /\ TableBlocks(BlockCount) = wwritten

\* a finished stream whose table has lost its first block
C29_BlockLost ==
    /\ WFinished
    /\ BlockCount > InitialHeaderCapacity
    /\ TableBlock(0) = <<>>
    /\ WBlockRaw(0) # <<>>

(***************************************************************************)
(* Path specification: the length fields of a descriptor                   *)
(***************************************************************************)
RECURSIVE Sum(_)
Sum(seq) == IF seq = <<>> THEN 0 ELSE Head(seq) + Sum(Tail(seq))

\* the length fields say what was written
LengthFieldsExact ==
    /\ presult.descriptor.Base.Length
           = GetDescriptorSize(pcall.type) + pcall.nameLength + pcall.targetLength
    /\ presult.descriptor.Base.Length = Sum(presult.written)
    /\ pcall.type = VA_FS_DESCRIPTOR_TYPE_SYMLINK =>
           /\ presult.descriptor.NameLength = pcall.nameLength
           /\ presult.descriptor.TargetLength = pcall.targetLength

\* C30: every descriptor emitted at close has a length field equal to the
\* size of its typed header plus its name bytes (plus its target bytes for
\* a symlink), the number of bytes written for the record, for every name
\* and target the create calls accept
C30_LengthField ==
    pcall.op = "write_descriptor" => LengthFieldsExact

\* the part that holds: the same for every record that is shorter than
\* 2^16 bytes, and the three fields are 16 bits wide
C30_LengthFieldBelowWidth ==
    pcall.op = "write_descriptor" =>
        /\ presult.descriptor.Base.Length < Uint16Modulus
        /\ Sum(presult.written) < Uint16Modulus => LengthFieldsExact
        /\ presult.descriptor.Base.Length = Uint16(Sum(presult.written))

\* the descriptor of a symlink whose target has 2^16 bytes: its target
\* length is 0 and its length names the header and the name
C30_TargetWrapped ==
    /\ pcall.op = "write_descriptor"
    /\ pcall.type = VA_FS_DESCRIPTOR_TYPE_SYMLINK
    /\ pcall.targetLength = Uint16Modulus
    /\ presult.descriptor.TargetLength = 0
    /\ presult.descriptor.Base.Length = SymlinkDescriptorSize + pcall.nameLength

(***************************************************************************)
(* Build specification: the overview                                       *)
(***************************************************************************)
\* the nodes of a type, the root left out
NodesOfType(vafs, type) ==
    {n \in 1..Len(vafs.Nodes) : vafs.Nodes[n].Type = type} \ {vafs.RootDirectory}

RECURSIVE SumOver(_, _)
\* the sum of the lengths of the files in a set
SumOver(vafs, files) ==
    IF files = {} THEN 0
    ELSE LET f == CHOOSE f \in files : TRUE
         IN vafs.Nodes[f].Descriptor.FileLength + SumOver(vafs, files \ {f})

RECURSIVE WrittenTotal(_)
\* the number of cells the successful writes have written
WrittenTotal(payloads) ==
    IF payloads = <<>> THEN 0
    ELSE Len(Head(payloads)) + WrittenTotal(Tail(payloads))

C31_WriteRefused ==
    /\ bphase = "write"
    /\ blast.op = "file_write" /\ blast.status = -1
    /\ bvafs.Overview.TotalSizeUncompressed >= 1

(***************************************************************************)
(* Seek specification: the cache after a sequential extraction             *)
(***************************************************************************)
\* the blocks held in the cache of the stream
CachedBlocks == DOMAIN wstream.BlockCache.cache

\* the first call on the opened stream was the extraction of the payload
Extracted == wlast.op = "extract" /\ wlast.calls = 1

\* C32: sequential extraction does not fill the cache: after a multi-block
\* file was read from its start to its end, in one read or in successive
\* block-sized reads, no block is in the cache
C32_ExtractionLeavesCacheEmpty ==
    Extracted => CachedBlocks = {}

\* the part that holds: a file read in one read leaves the cache empty, and
\* so does every extraction of a file of one block
C32_OneReadLeavesCacheEmpty ==
    (/\ Extracted
     /\ \/ wlast.chunk = Len(wwritten)
        \/ wstream.BlockHeaders.Count = 1) => CachedBlocks = {}

\* block-sized reads of a file of three blocks have all succeeded and have
\* left a block in the cache
C32_BlockCached ==
    /\ Extracted
    /\ wlast.status = 0
    /\ wlast.chunk = BlockSize
    /\ wstream.BlockHeaders.Count = 3
    /\ wlast.offset = Len(wwritten)
    /\ CachedBlocks # {}

(***************************************************************************)
(* Seek specification: the cache is transparent                            *)
(***************************************************************************)
\* the stream with a cache that holds nothing and has seen no request: a
\* seek or a read of one cell loads at most one block, from the device
Uncached(stream) == [stream EXCEPT !.BlockCache = CacheCreate(STREAM_CACHE_SIZE)]

\* every block in the cache of a stream holds the cells of that block,
\* which have the checksum of the block's header
CacheSound(stream) ==
    \A b \in DOMAIN stream.BlockCache.cache :
        /\ HasBlockHeader(stream, b)
        /\ stream.BlockCache.cache[b].buffer = WBlockRaw(b)
        /\ stream.BlockCache.cache[b].size = Len(WBlockRaw(b))
        /\ crc_calculate(stream.BlockCache.cache[b].buffer)
               = GetBlockHeader(stream, b).Crc

\* what the call just made returns on the stream without its cache
UncachedCall ==
    IF wlast'.op = "seek"
        THEN StreamSeek(Uncached(wstream), wdevice, wlast'.block, wlast'.offset)
        ELSE StreamRead(Uncached(wstream), wdevice, 1)

\* C33: the cache is transparent: every seek and every read on an
\* unchanging stream returns the status, leaves the position and delivers
\* the block cells that the same call returns, leaves and delivers when
\* the block is fetched from the device, and every block held in the cache
\* holds cells that passed the CRC check
C33_CacheTransparent ==
    [][ /\ CacheSound(wstream')
        /\ (wlast'.calls # wlast.calls /\ wlast'.op \in {"seek", "read"}) =>
              /\ UncachedCall.status = wlast'.status
              /\ StreamPosition(UncachedCall.stream) = StreamPosition(wstream')
              /\ UncachedCall.stream.BlockBuffer = wstream'.BlockBuffer
      ]_vars

\* a seek was served from the cache
C33_Witness ==
    /\ wlast.op = "seek"
    /\ wlast.status = 0
    /\ SeekBlock \in CachedBlocks
    /\ wstream.BlockCache.cache[SeekBlock].uses >= 2
    /\ wstream.BlockHeaders.Count >= 2

(***************************************************************************)
(* Build specification: the writing handle and the data-stream lock        *)
(***************************************************************************)
\* the open handles that are in the writing state
WritingHandles == {h \in 1..Len(bhandles) : bhandles[h].State = "Write"}

\* C34: in a write-mode image, after any sequence of create, open, write
\* and close calls on any number of file handles, at most one handle is in
\* the writing state and the lock of the data stream is held exactly when
\* there is such a handle
C34_OneWriter ==
    bphase \in {"write", "closed", "failed"} =>
        /\ Cardinality(WritingHandles) <= 1
        /\ bvafs.DataDevice.Locked <=> WritingHandles # {}

\* a handle that never wrote was closed while another handle is writing,
\* and the lock is still held
C34_Witness ==
    /\ bphase = "write"
    /\ blast.op = "file_close"
    /\ WritingHandles # {}
    /\ bvafs.DataDevice.Locked

(***************************************************************************)
(* Read specification: symlink resolution returns                          *)
(***************************************************************************)
\* the path vafs_file_open and vafs_path_stat restart on at the symlink /c
\* of "/c/b": the prefix up to the symlink's name, and the target
RestartPath == ResolveSymlink(VAFS_PATH_MAX, PathCB, 1 + Len(NameC), PathA)

\* C35: in a tree whose symlinks form no cycle vafs_file_open and
\* vafs_path_stat return for every path: a symlink restarts the resolution
\* on a path that does not lead back to the same symlink
C35_ResolutionReturns ==
    rlast.op \in {"file_open", "path_stat"} => rlast.errno # "no return"

\* the part that holds: the calls return for every path that does not pass
\* through the symlink
C35_ReturnsOffSymlink ==
    (rlast.op \in {"file_open", "path_stat"} /\ rlast.path # PathCB)
        => rlast.errno # "no return"

\* a call on "/c/b" has not returned: the path it restarts on passes
\* through the symlink /c again and restarts on itself
C35_RestartsOnItself ==
    /\ rlast.op \in {"file_open", "path_stat"}
    /\ rlast.path = PathCB
    /\ rlast.errno = "no return"
    /\ SubSeq(RestartPath, 1, Len(NameC)) = NameC
    /\ ResolveSymlink(VAFS_PATH_MAX, RestartPath, Len(NameC), PathA) = RestartPath

\* the fields of a memory device in their order
MemoryOrdered(dev) ==
    /\ 0 <= dev.Position
    /\ dev.Position <= dev.Size
    /\ dev.Size <= dev.Capacity
    /\ Len(dev.Buffer) = dev.Capacity

\* the cells of the buffer outside the cells from..from + count - 1 (counted
\* from 0) are the cells the device had before
OutsideKept(dev, before, from, count) ==
    \A i \in 1..before.Capacity :
        (i <= from \/ i > from + count) => dev.Buffer[i] = before.Buffer[i]

\* C36: after any sequence of seek, read and write operations on a memory
\* device, 0 <= position <= valid size <= capacity holds, a read delivers
\* min(requested length, valid size - position) bytes and advances the
\* position by that amount, and no read or write touches a byte outside
\* [0, capacity).
C36_MemoryBounds ==
    /\ MemoryOrdered(mdestination)
    /\ MemoryOrdered(msource)
    /\ mlast.op = "read" =>
           LET before == mlast.destination
               count == Min(mlast.offset, before.Size - before.Position)
           IN /\ Len(mlast.data) = count
              /\ mlast.data = Slice(before.Buffer, before.Position, count)
              /\ mdestination.Position = before.Position + count
              /\ before.Position + count <= before.Capacity
              /\ mdestination.Buffer = before.Buffer
              /\ mdestination.Size = before.Size
    /\ mlast.op = "write" =>
           LET before == mlast.destination
           IN /\ before.Position + Len(mlast.data) <= mdestination.Capacity
              /\ Slice(mdestination.Buffer, before.Position, Len(mlast.data))
                    = mlast.data
              /\ OutsideKept(mdestination, before, before.Position,
                             Len(mlast.data))
    /\ mlast.op = "write_nomem" => mdestination = mlast.destination
    /\ DestinationSeek =>
           /\ mdestination.Buffer = mlast.destination.Buffer
           /\ mdestination.Size = mlast.destination.Size

\* a read of more cells than the valid cells left has delivered the cells
\* left, from a buffer that had grown
C36_Witness ==
    /\ mlast.op = "read"
    /\ Len(mlast.data) > 0
    /\ Len(mlast.data) < mlast.offset
    /\ mlast.destination.Position > 0
    /\ mlast.destination.Capacity > BlockSize
    /\ mdestination.Position = mdestination.Size

\* a write has grown the buffer by the cells it lacked
C36_Grown ==
    /\ mlast.op = "write"
    /\ mlast.destination.Position + Len(mlast.data) > mlast.destination.Capacity
    /\ mdestination.Capacity = mlast.destination.Position + Len(mlast.data)

\* the position a vafs_file_seek asked for
SeekTarget ==
    CASE rlast.data[1] = SEEK_SET -> rlast.size
      [] rlast.data[1] = SEEK_CUR -> rlast.position + rlast.size
      [] rlast.data[1] = SEEK_END -> Len(rexpected[rlast.name]) + rlast.size

FileSought == rlast.op = "file_seek" /\ rlast.status = 0

\* C37: after vafs_file_seek with any whence and any signed offset, the
\* handle's position lies in [0, file_length]: a target before the start of
\* the file clamps to 0 and a target past the end clamps to file_length
\* (the position being a 32-bit unsigned value).
C37_SeekClamps ==
    FileSought =>
        LET length == Len(rexpected[rlast.name])
        IN /\ rhandle.Position \in 0..length
           /\ SeekTarget < 0 => rhandle.Position = 0
           /\ SeekTarget > length => rhandle.Position = length
           /\ SeekTarget \in 0..length => rhandle.Position = SeekTarget

\* what vafs_file_seek does: the position lies in [0, file_length], a
\* target inside the file is taken, a target past the end gives the file
\* length, and so does a target before the start
C37_SeekInRange ==
    FileSought =>
        LET length == Len(rexpected[rlast.name])
        IN /\ rhandle.Position \in 0..length
           /\ SeekTarget < 0 => rhandle.Position = length
           /\ SeekTarget > length => rhandle.Position = length
           /\ SeekTarget \in 0..length => rhandle.Position = SeekTarget

\* a seek to a target before the start of a file has left the handle at
\* the end of the file
C37_BeforeStart ==
    /\ FileSought
    /\ SeekTarget < 0
    /\ rhandle.Position = Len(rexpected[rlast.name])
    /\ rhandle.Position > 0

BackendCopied == mlast.op = "backend_copy"

\* the destination holds the valid cells of the source from the position
\* it had at the call, and stands behind them
AllCopied ==
    LET at == mlast.destination.Position
        size == mlast.source.Size
    IN /\ mdestination.Position = at + size
       /\ SubSeq(mdestination.Buffer, at + 1, at + size)
             = ValidCells(mlast.source)

\* C38: vafs_streamdevice_copy returns success only if every valid byte of
\* the source has been written to the destination: a failed or short read
\* of the source, or a failed or short write to the destination, makes it
\* return failure.
C38_CopySuccess ==
    BackendCopied =>
        /\ mlast.status = 0 => AllCopied
        /\ (mlast.readFault \/ mlast.short \/ mlast.writeFault) =>
               mlast.status # 0

\* what the copy does: success only with every valid cell of the source
\* written; a failed read, which a short read of a file-backed source is,
\* and a failed or short write make it fail; a read of a memory-backed
\* source that delivers the last valid cells, fewer than the transfer
\* buffer holds, is no failure, and the copy succeeds when the cells are
\* written
C38_CopyFailure ==
    BackendCopied =>
        /\ mlast.status = 0 => AllCopied
        /\ (mlast.readFault \/ mlast.writeFault) => mlast.status # 0
        /\ (mlast.short /\ mlast.kinds.source = "file") =>
               mlast.readFault \/ mlast.writeFault
        /\ (mlast.short /\ mlast.kinds.source = "memory" /\ ~mlast.writeFault) =>
               mlast.status = 0
        /\ (mlast.kinds = [source |-> "memory", destination |-> "memory"]
               /\ mlast.fault = NoFault) =>
               /\ mlast.status = DeviceCopy(mlast.destination, mlast.source).status
               /\ mdestination
                     = DeviceCopy(mlast.destination, mlast.source).destination

\* a write to a file destination that took a part of the second transfer
\* buffer has made the copy fail, the destination holding a part of the
\* source
C38_Witness ==
    /\ BackendCopied
    /\ mlast.writeFault
    /\ mlast.kinds.destination = "file"
    /\ mlast.fault.round = 2
    /\ mlast.status # 0
    /\ mdestination.Position > mlast.destination.Position + TRANSFER_BUFFER_SIZE
    /\ mdestination.Position < mlast.destination.Position + mlast.source.Size

\* a read of a file source that came short has made the copy fail
C38_ShortRead ==
    /\ BackendCopied
    /\ mlast.readFault
    /\ mlast.short
    /\ mlast.kinds.source = "file"
    /\ mlast.status # 0
    /\ mdestination.Position < mlast.destination.Position + mlast.source.Size

\* a memory source gave its last cells in a short read and the copy
\* succeeded with every cell written
C38_MemoryTail ==
    /\ BackendCopied
    /\ mlast.kinds.source = "memory"
    /\ mlast.short
    /\ mlast.status = 0
    /\ mlast.source.Size > TRANSFER_BUFFER_SIZE
    /\ AllCopied

\* the destination could not grow and the copy failed
C38_NoMemory ==
    /\ BackendCopied
    /\ mlast.fault.op = "nomem"
    /\ mlast.writeFault
    /\ mlast.status # 0

ResolvedBounded == pcall.op = "resolve_bounded"

\* the cell of the buffer, counted from 0, that takes the terminator
TerminatorCell == Len(presult)

\* C39: __vafs_resolve_symlink never writes outside the buffer it is
\* given: for every traversal prefix and every target, the resolved path
\* together with its terminator occupies at most bufferLength bytes.
C39_ResolveInBuffer ==
    ResolvedBounded => Len(presult) + 1 <= pcall.bufferLength

\* what __vafs_resolve_symlink keeps inside the buffer: the cells of the
\* path; the terminator is inside whenever the prefix and the target
\* together are shorter than the buffer
C39_PathInBuffer ==
    ResolvedBounded =>
        /\ Len(presult) <= pcall.bufferLength
        /\ Len(pcall.base) + Len(pcall.target) < pcall.bufferLength =>
               TerminatorCell < pcall.bufferLength

\* the path has filled the buffer and the terminator went into the cell
\* behind it
C39_TerminatorOutside ==
    /\ ResolvedBounded
    /\ Len(pcall.base) > 0
    /\ Len(pcall.target) > 0
    /\ TerminatorCell = pcall.bufferLength

StreamCalled == wlast.op \in {"write", "finish", "write_fault", "finish_fault"}

\* the block table has as many entries as position() reports blocks, and
\* the staged offset is below the block size
IndexInStep(stream) ==
    /\ stream.BlockHeaders.Count = StreamPosition(stream).Index
    /\ StreamPosition(stream).Offset < stream.Header.BlockSize

\* C40: in a write-mode stream, after every write or finish call, whether
\* it succeeded or failed (encoder failure, device write failure,
\* allocation failure), the number of block-index entries equals the
\* staging block index reported by position(), and the staged byte offset
\* is strictly less than block_size.
C40_IndexInStep ==
    StreamCalled => IndexInStep(wstream)

\* what holds: after every call that met no fault the table and the
\* staging block are in step; a failed encoder or reallocation leaves the
\* table in step with a full staging block, a failed device write leaves
\* the table one entry ahead with a full staging block
C40_IndexInStepNoFault ==
    /\ wlast.op \in {"write", "finish"} => IndexInStep(wstream)
    /\ wlast.op \in {"write_fault", "finish_fault"} =>
           /\ wstream.BlockBufferOffset > 0
           /\ wlast.op = "write_fault" =>
                  wstream.BlockBufferOffset = wstream.Header.BlockSize
           /\ wstream.BlockHeaders.Count
                 = wstream.BlockBufferIndex
                     + (IF wlast.fault = "device" THEN 1 ELSE 0)

\* a device write failed in a flush: the table holds an entry for a block
\* that is not on the device, and the staging block is full
C40_DeviceWriteFailed ==
    /\ wlast.op = "write_fault"
    /\ wlast.fault = "device"
    /\ wstream.BlockBufferIndex > 0
    /\ wstream.BlockHeaders.Count = wstream.BlockBufferIndex + 1
    /\ wstream.BlockBufferOffset = wstream.Header.BlockSize

\* the encoder failed in a flush and the staging block stayed full
C40_EncoderFailed ==
    /\ wlast.op = "write_fault"
    /\ wlast.fault = "encode"
    /\ wstream.BlockHeaders.Count = wstream.BlockBufferIndex
    /\ wstream.BlockBufferOffset = wstream.Header.BlockSize
====
